---- MODULE Spec2Model ----
(***************************************************************************)
(* A model of the code-structure extractor and its format adapters         *)
(* (src/append-files/extract-code-signatures.py).                          *)
(*                                                                         *)
(* A source is a syntax tree (the result of ast.parse).  extract walks it  *)
(* as CodeStructureExtractor does and builds the structure dictionary; the *)
(* IDL and JSON adapters turn the structure into text.  Python strings are *)
(* TLA+ strings and the text operations of the adapters (in, split, strip, *)
(* lower, repr) are computed character by character.                       *)
(***************************************************************************)
EXTENDS Integers, Sequences, FiniteSets, TLC

(***************************************************************************)
(* Bounds of the model.                                                    *)
(***************************************************************************)
\* longest module body that is enumerated
MaxStmts == 2
\* largest number of elements of a tags=[...] list in a decorator
MaxTags == 2
\* number of convert calls made on one structure, per adapter
MaxCalls == 2

(***************************************************************************)
(* Python string operations.                                               *)
(***************************************************************************)
Char(s, i) == SubSeq(s, i, i)

RECURSIVE FindFrom(_, _, _)
FindFrom(s, sub, i) ==
    IF i + Len(sub) - 1 > Len(s) THEN 0
    ELSE IF SubSeq(s, i, i + Len(sub) - 1) = sub THEN i
    ELSE FindFrom(s, sub, i + 1)

\* s.find(sub) + 1: the first position of sub in s, 0 when absent
Find(s, sub) == FindFrom(s, sub, 1)

RECURSIVE RFindFrom(_, _, _)
RFindFrom(s, sub, i) ==
    IF i < 1 THEN 0
    ELSE IF SubSeq(s, i, i + Len(sub) - 1) = sub THEN i
    ELSE RFindFrom(s, sub, i - 1)

\* s.rfind(sub) + 1: the last position of sub in s, 0 when absent
RFind(s, sub) == RFindFrom(s, sub, Len(s) - Len(sub) + 1)

\* sub in s
Contains(s, sub) == Find(s, sub) # 0

StartsWith(s, p) == Len(s) >= Len(p) /\ SubSeq(s, 1, Len(p)) = p

EndsWith(s, p) == Len(s) >= Len(p) /\ SubSeq(s, Len(s) - Len(p) + 1, Len(s)) = p

\* s.split(sep, 1)[1], for a separator that occurs in s
AfterFirst(s, sep) == SubSeq(s, Find(s, sep) + Len(sep), Len(s))

\* s.split(sep)[0]
BeforeFirst(s, sep) ==
    LET i == Find(s, sep) IN IF i # 0 THEN SubSeq(s, 1, i - 1) ELSE s

\* s.rsplit(sep, 1)[0]
BeforeLast(s, sep) ==
    LET i == RFind(s, sep) IN IF i # 0 THEN SubSeq(s, 1, i - 1) ELSE s

\* s.split(sep): never empty, [s] when sep does not occur
RECURSIVE Split(_, _)
Split(s, sep) ==
    LET i == Find(s, sep)
    IN  IF i # 0
        THEN <<SubSeq(s, 1, i - 1)>> \o Split(SubSeq(s, i + Len(sep), Len(s)), sep)
        ELSE <<s>>

RECURSIVE JoinFrom(_, _, _)
JoinFrom(parts, sep, i) ==
    IF i = Len(parts) THEN parts[i]
    ELSE parts[i] \o sep \o JoinFrom(parts, sep, i + 1)

\* sep.join(parts)
Join(parts, sep) ==
    LET ps == parts \o <<>>
    IN  IF Len(ps) = 0 THEN "" ELSE JoinFrom(ps, sep, 1)

\* s.strip(chars) for a set of characters
RECURSIVE LStripChars(_, _)
LStripChars(s, chars) ==
    IF Len(s) > 0 /\ Char(s, 1) \in chars
    THEN LStripChars(SubSeq(s, 2, Len(s)), chars)
    ELSE s

RECURSIVE RStripChars(_, _)
RStripChars(s, chars) ==
    IF Len(s) > 0 /\ Char(s, Len(s)) \in chars
    THEN RStripChars(SubSeq(s, 1, Len(s) - 1), chars)
    ELSE s

StripChars(s, chars) == RStripChars(LStripChars(s, chars), chars)

Whitespace == {" ", "\t", "\n"}

\* s.strip()
Strip(s) == StripChars(s, Whitespace)

Quotes == {"\"", "'"}

LowerChar(c) ==
    CASE c = "A" -> "a" [] c = "B" -> "b" [] c = "C" -> "c" [] c = "D" -> "d"
      [] c = "E" -> "e" [] c = "F" -> "f" [] c = "G" -> "g" [] c = "H" -> "h"
      [] c = "I" -> "i" [] c = "J" -> "j" [] c = "K" -> "k" [] c = "L" -> "l"
      [] c = "M" -> "m" [] c = "N" -> "n" [] c = "O" -> "o" [] c = "P" -> "p"
      [] c = "Q" -> "q" [] c = "R" -> "r" [] c = "S" -> "s" [] c = "T" -> "t"
      [] c = "U" -> "u" [] c = "V" -> "v" [] c = "W" -> "w" [] c = "X" -> "x"
      [] c = "Y" -> "y" [] c = "Z" -> "z" [] OTHER -> c

\* s.lower()
RECURSIVE Lower(_)
Lower(s) ==
    IF Len(s) = 0 THEN ""
    ELSE LowerChar(Char(s, 1)) \o Lower(SubSeq(s, 2, Len(s)))

\* repr(s) of a str without backslashes or control characters: single
\* quotes, double quotes when s holds a single quote and no double quote
ReprStr(s) ==
    IF Contains(s, "'") /\ ~Contains(s, "\"")
    THEN "\"" \o s \o "\""
    ELSE "'" \o s \o "'"

Digit(d) ==
    CASE d = 0 -> "0" [] d = 1 -> "1" [] d = 2 -> "2" [] d = 3 -> "3"
      [] d = 4 -> "4" [] d = 5 -> "5" [] d = 6 -> "6" [] d = 7 -> "7"
      [] d = 8 -> "8" [] d = 9 -> "9"

\* str(n) of a non-negative int
RECURSIVE IntStr(_)
IntStr(n) == IF n < 10 THEN Digit(n) ELSE IntStr(n \div 10) \o Digit(n % 10)

(***************************************************************************)
(* Python values held by the structure.  A value is tagged with its type,  *)
(* as Python values are: None, str, int, bytes, list, tuple, dict.  Raise  *)
(* stands for an exception leaving the call that computes the value.       *)
(***************************************************************************)
PyNone == [t |-> "None"]
PyStr(s) == [t |-> "str", s |-> s]
PyInt(n) == [t |-> "int", n |-> n]
PyBytes(s) == [t |-> "bytes", bytes |-> s]
PyBool(b) == [t |-> "bool", b |-> b]
PyList(elts) == [t |-> "list", elts |-> elts]
PyTuple(elts) == [t |-> "tuple", elts |-> elts]
PyDict(items) == [t |-> "dict", items |-> items]
Raise(exc) == [t |-> "raise", exc |-> exc]

IsRaise(v) == v.t = "raise"

\* str(v) of a constant
PyStrOf(v) ==
    CASE v.t = "str" -> v.s
      [] v.t = "int" -> IntStr(v.n)
      [] v.t = "None" -> "None"
      [] v.t = "bytes" -> "b" \o ReprStr(v.bytes)
      [] v.t = "bool" -> IF v.b THEN "True" ELSE "False"

\* repr(v) of a value
RECURSIVE PyRepr(_)
PyRepr(v) ==
    CASE v.t = "str" -> ReprStr(v.s)
      [] v.t = "int" -> IntStr(v.n)
      [] v.t = "None" -> "None"
      [] v.t = "bytes" -> "b" \o ReprStr(v.bytes)
      [] v.t = "bool" -> IF v.b THEN "True" ELSE "False"
      [] v.t = "list" ->
           "[" \o Join([i \in 1..Len(v.elts) |-> PyRepr(v.elts[i])], ", ") \o "]"
      [] v.t = "tuple" ->
           IF Len(v.elts) = 1 THEN "(" \o PyRepr(v.elts[1]) \o ",)"
           ELSE "(" \o Join([i \in 1..Len(v.elts) |-> PyRepr(v.elts[i])], ", ") \o ")"
      [] v.t = "dict" ->
           "{" \o Join([i \in 1..Len(v.items) |->
                          PyRepr(v.items[i].key) \o ": " \o PyRepr(v.items[i].val)],
                       ", ") \o "}"

\* hash(v) succeeds
RECURSIVE Hashable(_)
Hashable(v) ==
    CASE v.t \in {"None", "str", "int", "bytes", "bool"} -> TRUE
      [] v.t = "tuple" -> \A i \in 1..Len(v.elts) : Hashable(v.elts[i])
      [] OTHER -> FALSE

\* d[key] = val on an insertion-ordered dict
DictSet(items, key, val) ==
    IF \E i \in 1..Len(items) : items[i].key = key
    THEN [i \in 1..Len(items) |->
            IF items[i].key = key THEN [key |-> key, val |-> val] ELSE items[i]]
    ELSE Append(items, [key |-> key, val |-> val])

\* dict(zip(keys, values)): TypeError at the first unhashable key
RECURSIVE DictZip(_, _, _)
DictZip(items, keys, values) ==
    IF Len(keys) = 0 \/ Len(values) = 0 THEN PyDict(items)
    ELSE IF ~Hashable(keys[1]) THEN Raise("TypeError")
    ELSE DictZip(DictSet(items, keys[1], values[1]), Tail(keys), Tail(values))

(***************************************************************************)
(* Syntax trees, as ast.parse builds them (Python 3.9 to 3.13, where a     *)
(* subscript holds its slice directly and ast.unparse exists).  NoNode is  *)
(* the None of an absent child (no annotation, a ** key of a dict).        *)
(***************************************************************************)
NoNode == [k |-> "None"]
Constant(v) == [k |-> "Constant", value |-> v]
Name(id) == [k |-> "Name", id |-> id]
List(elts) == [k |-> "List", elts |-> elts]
Tuple(elts) == [k |-> "Tuple", elts |-> elts]
Dict(keys, values) == [k |-> "Dict", keys |-> keys, values |-> values]
Attribute(value, attr) == [k |-> "Attribute", value |-> value, attr |-> attr]
Subscript(value, slice) == [k |-> "Subscript", value |-> value, slice |-> slice]
Index(value) == [k |-> "Index", value |-> value]
BinOp(left, op, right) == [k |-> "BinOp", left |-> left, op |-> op, right |-> right]
keyword(arg, value) == [arg |-> arg, value |-> value]
Call(func, args, keywords) ==
    [k |-> "Call", func |-> func, args |-> args, keywords |-> keywords]

Str(s) == Constant(PyStr(s))
Num(n) == Constant(PyInt(n))

(***************************************************************************)
(* ast.unparse, for the expression shapes of the model.                    *)
(***************************************************************************)
RECURSIVE unparse(_)
unparse(node) ==
    CASE node.k = "Name" -> node.id
      [] node.k = "Constant" -> PyRepr(node.value)
      [] node.k = "Attribute" -> unparse(node.value) \o "." \o node.attr
      [] node.k = "BinOp" ->
           unparse(node.left) \o " " \o node.op \o " " \o unparse(node.right)
      [] node.k = "Subscript" ->
           unparse(node.value) \o "[" \o unparse(node.slice) \o "]"
      [] node.k = "List" ->
           "[" \o Join([i \in 1..Len(node.elts) |-> unparse(node.elts[i])], ", ") \o "]"
      [] node.k = "Tuple" ->
           IF Len(node.elts) = 1 THEN "(" \o unparse(node.elts[1]) \o ",)"
           ELSE "(" \o Join([i \in 1..Len(node.elts) |-> unparse(node.elts[i])], ", ")
                    \o ")"
      [] node.k = "Dict" ->
           "{" \o Join([i \in 1..Len(node.keys) |->
                          IF node.keys[i].k = "None"
                          THEN "**" \o unparse(node.values[i])
                          ELSE unparse(node.keys[i]) \o ": " \o unparse(node.values[i])],
                       ", ") \o "}"
      [] node.k = "Call" ->
           unparse(node.func) \o "("
             \o Join([i \in 1..Len(node.args) |-> unparse(node.args[i])]
                     \o [i \in 1..Len(node.keywords) |->
                           node.keywords[i].arg \o "=" \o unparse(node.keywords[i].value)],
                     ", ")
             \o ")"

(***************************************************************************)
(* CodeStructureExtractor: the three renderers.                            *)
(***************************************************************************)
\* the rendered value of an assigned expression, or Raise when building it
\* fails
RECURSIVE _extract_value(_)
_extract_value(node) ==
    CASE node.k = "Constant" -> node.value
      [] node.k = "List" ->
           LET items == [i \in 1..Len(node.elts) |-> _extract_value(node.elts[i])]
           IN  IF \E i \in 1..Len(items) : IsRaise(items[i])
               THEN Raise("TypeError")
               ELSE PyList(items)
      [] node.k = "Dict" ->
           LET keys == [i \in 1..Len(node.keys) |-> _extract_value(node.keys[i])]
               values == [i \in 1..Len(node.values) |-> _extract_value(node.values[i])]
           IN  IF \/ \E i \in 1..Len(keys) : IsRaise(keys[i])
                  \/ \E i \in 1..Len(values) : IsRaise(values[i])
               THEN Raise("TypeError")
               ELSE DictZip(<<>>, keys, values)
      [] node.k = "Tuple" ->
           LET items == [i \in 1..Len(node.elts) |-> _extract_value(node.elts[i])]
           IN  IF \E i \in 1..Len(items) : IsRaise(items[i])
               THEN Raise("TypeError")
               ELSE PyTuple(items)
      [] node.k = "Name" -> PyStr("<" \o node.id \o ">")
      [] node.k = "Call" -> PyStr("<function call>")
      [] OTHER -> PyStr("<complex value>")

RECURSIVE _get_attribute_path(_)
_get_attribute_path(node) ==
    CASE node.k = "Name" -> node.id
      [] node.k = "Attribute" -> _get_attribute_path(node.value) \o "." \o node.attr
      [] OTHER -> "unknown"

\* the text of a type annotation; ast.unparse raises nothing on a parsed tree
RECURSIVE _get_annotation_str(_)
_get_annotation_str(node) ==
    CASE node.k = "None" -> "Any"
      [] node.k = "Name" -> node.id
      [] node.k = "Subscript" ->
           LET value == _get_annotation_str(node.value)
               slice_value ==
                   CASE node.slice.k = "Index" -> _get_annotation_str(node.slice.value)
                     [] node.slice.k = "Tuple" ->
                          Join([i \in 1..Len(node.slice.elts) |->
                                  _get_annotation_str(node.slice.elts[i])], ", ")
                     [] node.slice.k = "Name" -> node.slice.id
                     [] node.slice.k = "Constant" -> PyStrOf(node.slice.value)
                     [] OTHER -> unparse(node.slice)
           IN  value \o "[" \o slice_value \o "]"
      [] node.k = "Tuple" ->
           Join([i \in 1..Len(node.elts) |-> _get_annotation_str(node.elts[i])], ", ")
      [] node.k = "Attribute" -> _get_attribute_path(node)
      [] node.k = "Constant" -> PyStrOf(node.value)
      [] OTHER -> unparse(node)

\* one list argument of a decorator call
DecoratorListStr(arg) ==
    "[" \o Join([i \in 1..Len(arg.elts) |->
                   IF arg.elts[i].k = "Constant"
                   THEN PyRepr(arg.elts[i].value)
                   ELSE "..."], ", ") \o "]"

\* one positional argument of a decorator call
DecoratorArgStr(arg) ==
    CASE arg.k = "Constant" -> PyRepr(arg.value)
      [] arg.k = "Name" -> arg.id
      [] arg.k = "Attribute" -> _get_attribute_path(arg)
      [] arg.k = "List" -> DecoratorListStr(arg)
      [] OTHER -> "..."

\* the value of one keyword argument of a decorator call
DecoratorKwStr(value) ==
    CASE value.k = "Constant" -> PyRepr(value.value)
      [] value.k = "Name" -> value.id
      [] value.k = "Call" -> _get_attribute_path(value.func) \o "(...)"
      [] value.k = "List" -> DecoratorListStr(value)
      [] OTHER -> "..."

_get_decorator_str(node) ==
    CASE node.k = "Name" -> node.id
      [] node.k = "Call" ->
           LET func_name == _get_attribute_path(node.func)
               args == [i \in 1..Len(node.args) |-> DecoratorArgStr(node.args[i])]
                       \o [i \in 1..Len(node.keywords) |->
                             node.keywords[i].arg \o "="
                               \o DecoratorKwStr(node.keywords[i].value)]
           IN  func_name \o "(" \o Join(args, ", ") \o ")"
      [] node.k = "Attribute" -> _get_attribute_path(node)
      [] OTHER -> "unknown_decorator"

(***************************************************************************)
(* Statements.  depth is the _depth attribute that extract_code_structure  *)
(* sets on every node before the visit.                                    *)
(***************************************************************************)
alias(name, asname) == [name |-> name, asname |-> asname]
Import(names) == [k |-> "Import", names |-> names, depth |-> 0]
ImportFrom(module, names) ==
    [k |-> "ImportFrom", module |-> module, names |-> names, depth |-> 0]
Assign(targets, value) ==
    [k |-> "Assign", targets |-> targets, value |-> value, depth |-> 0]
AnnAssign(target, annotation, value) ==
    [k |-> "AnnAssign", target |-> target, annotation |-> annotation,
     value |-> value, depth |-> 0]
Expr(value) == [k |-> "Expr", value |-> value, depth |-> 0]
If(body) == [k |-> "If", body |-> body, depth |-> 0]
arg(name, annotation) == [k |-> "arg", arg |-> name, annotation |-> annotation]
\* the parameters of a definition: (posonlyargs, /, args, *vararg, kwonlyargs,
\* **kwarg)
arguments_all(posonlyargs, args, vararg, kwonlyargs, kwarg) ==
    [posonlyargs |-> posonlyargs, args |-> args, vararg |-> vararg,
     kwonlyargs |-> kwonlyargs, kwarg |-> kwarg]
arguments(args, vararg, kwarg) == arguments_all(<<>>, args, vararg, <<>>, kwarg)
FunctionDef(name, args, body, decorator_list, returns) ==
    [k |-> "FunctionDef", name |-> name, args |-> args, body |-> body,
     decorator_list |-> decorator_list, returns |-> returns, depth |-> 0]
AsyncFunctionDef(name, args, body, decorator_list, returns) ==
    [k |-> "AsyncFunctionDef", name |-> name, args |-> args, body |-> body,
     decorator_list |-> decorator_list, returns |-> returns, depth |-> 0]
ClassDef(name, bases, body) ==
    [k |-> "ClassDef", name |-> name, bases |-> bases, body |-> body, depth |-> 0]
Module(body) == [k |-> "Module", body |-> body, depth |-> 0]

HasBody(node) == node.k \in {"Module", "If", "FunctionDef", "AsyncFunctionDef", "ClassDef"}

\* the tree with every statement's depth set: the node itself at depth, its
\* children one deeper
RECURSIVE _walk_tree_with_depth(_, _)
_walk_tree_with_depth(node, depth) ==
    IF HasBody(node)
    THEN [node EXCEPT !.depth = depth,
                      !.body = [i \in 1..Len(node.body) |->
                                  _walk_tree_with_depth(node.body[i], depth + 1)]]
    ELSE [node EXCEPT !.depth = depth]

\* ast.get_docstring(node), for docstrings that inspect.cleandoc leaves as
\* they are: PyNone when the body does not start with a string expression
get_docstring(node) ==
    IF /\ Len(node.body) > 0
       /\ node.body[1].k = "Expr"
       /\ node.body[1].value.k = "Constant"
       /\ node.body[1].value.value.t = "str"
    THEN node.body[1].value.value
    ELSE PyNone

\* bool(v) of None or a str
Truthy(v) == v # PyNone /\ v # PyStr("")

(***************************************************************************)
(* CodeStructureExtractor: the visitor.  Its state is the structure being  *)
(* built, the current class (PyNone or the class_data being filled) and    *)
(* exc, the exception that is unwinding the visit ("" when none is).       *)
(***************************************************************************)
NewExtractor ==
    [structure |-> [imports |-> <<>>, global_vars |-> <<>>,
                    functions |-> <<>>, classes |-> <<>>],
     current_class |-> PyNone,
     exc |-> ""]

visit_Import(node, st) ==
    [st EXCEPT !.structure.imports =
        @ \o [i \in 1..Len(node.names) |->
                [type |-> "import", name |-> node.names[i].name,
                 alias |-> node.names[i].asname]]]

visit_ImportFrom(node, st) ==
    [st EXCEPT !.structure.imports =
        @ \o [i \in 1..Len(node.names) |->
                [type |-> "import_from", module |-> node.module,
                 name |-> node.names[i].name, alias |-> node.names[i].asname]]]

\* the depth at which visit_Assign takes an assignment for a module-level one
ModuleLevelDepth == 0

\* the loop over node.targets of visit_Assign
RECURSIVE AssignTargets(_, _, _)
AssignTargets(targets, node, st) ==
    IF Len(targets) = 0 \/ st.exc # "" THEN st
    ELSE IF targets[1].k = "Name"
    THEN LET value == _extract_value(node.value)
             seen == \E i \in 1..Len(st.structure.global_vars) :
                        st.structure.global_vars[i].name = targets[1].id
             st1 == IF IsRaise(value) THEN [st EXCEPT !.exc = value.exc]
                    ELSE IF seen THEN st
                    ELSE [st EXCEPT !.structure.global_vars =
                            Append(@, [name |-> targets[1].id, value |-> value])]
         IN  AssignTargets(Tail(targets), node, st1)
    ELSE AssignTargets(Tail(targets), node, st)

\* visit_Assign without its scope test: every assignment visited is taken
\* for a module-level one
visit_Assign_any_scope(node, st) == AssignTargets(node.targets, node, st)

\* visit_Assign taking the depth of the module body, one below the module,
\* for the module level
visit_Assign_body_depth(node, st) ==
    IF st.current_class = PyNone /\ node.depth = ModuleLevelDepth + 1
    THEN AssignTargets(node.targets, node, st)
    ELSE st

\* an assignment holds no statement, so its generic_visit changes nothing
visit_Assign(node, st) ==
    IF st.current_class = PyNone /\ node.depth = ModuleLevelDepth
    THEN AssignTargets(node.targets, node, st)
    ELSE st

\* the loop over node.args.args typing a parameter by its annotation
\* whatever the shape of the annotation
PositionalParams_any_shape(args) ==
    [i \in 1..Len(args) |->
        IF args[i].annotation.k # "None"
        THEN [name |-> args[i].arg,
              type |-> PyStr(_get_annotation_str(args[i].annotation))]
        ELSE [name |-> args[i].arg]]

\* the loop over node.args.args of _process_function
PositionalParams(args) ==
    [i \in 1..Len(args) |->
        IF args[i].annotation.k = "Name"
        THEN [name |-> args[i].arg, type |-> PyStr(args[i].annotation.id)]
        ELSE IF args[i].annotation.k = "Subscript"
        THEN [name |-> args[i].arg,
              type |-> PyStr(_get_annotation_str(args[i].annotation))]
        ELSE [name |-> args[i].arg]]

\* the entry of *args or **kwargs
VariadicParam(prefix, a) ==
    [name |-> prefix \o a.arg,
     type |-> IF a.annotation.k # "None"
              THEN PyStr(_get_annotation_str(a.annotation))
              ELSE PyNone]

\* the function_data dictionary of _process_function
function_data(node, is_async) ==
    [name |-> node.name,
     params |-> PositionalParams(node.args.args)
                  \o (IF node.args.vararg.k # "None"
                      THEN <<VariadicParam("*", node.args.vararg)>> ELSE <<>>)
                  \o (IF node.args.kwarg.k # "None"
                      THEN <<VariadicParam("**", node.args.kwarg)>> ELSE <<>>),
     docstring |-> get_docstring(node),
     return_type |-> IF node.returns.k = "None" THEN PyNone
                     ELSE IF node.returns.k = "Name" THEN PyStr(node.returns.id)
                     ELSE PyStr(_get_annotation_str(node.returns)),
     decorators |-> [i \in 1..Len(node.decorator_list) |->
                       _get_decorator_str(node.decorator_list[i])],
     is_async |-> is_async]

\* the bases list of visit_ClassDef
ClassBases(bases) ==
    LET keep == SelectSeq(bases, LAMBDA b : b.k \in {"Name", "Attribute"})
    IN  [i \in 1..Len(keep) |->
            IF keep[i].k = "Name" THEN keep[i].id ELSE _get_attribute_path(keep[i])]

\* the class_vars entries one class-body assignment appends
ClassVarEntries(child) ==
    LET names == SelectSeq(child.targets, LAMBDA tg : tg.k = "Name")
    IN  [i \in 1..Len(names) |->
            [name |-> names[i].id,
             value |-> IF child.value.k = "Constant" THEN child.value.value
                       ELSE PyNone]]

RECURSIVE visit(_, _)
RECURSIVE generic_visit(_, _)
RECURSIVE VisitAll(_, _)
RECURSIVE _process_function(_, _, _)
RECURSIVE visit_ClassDef(_, _)
RECURSIVE ClassBody(_, _)

\* NodeVisitor.visit: the visitor method of the node's class
visit(node, st) ==
    IF st.exc # "" THEN st
    ELSE CASE node.k = "Import" -> visit_Import(node, st)
           [] node.k = "ImportFrom" -> visit_ImportFrom(node, st)
           [] node.k = "Assign" -> visit_Assign(node, st)
           [] node.k = "FunctionDef" -> _process_function(node, FALSE, st)
           [] node.k = "AsyncFunctionDef" -> _process_function(node, TRUE, st)
           [] node.k = "ClassDef" -> visit_ClassDef(node, st)
           [] OTHER -> generic_visit(node, st)

\* NodeVisitor.generic_visit: the child statements in order (no visitor
\* method exists for an expression, and an expression holds no statement)
generic_visit(node, st) ==
    IF HasBody(node) THEN VisitAll(node.body, st) ELSE st

VisitAll(nodes, st) ==
    IF Len(nodes) = 0 THEN st
    ELSE VisitAll(Tail(nodes), visit(nodes[1], st))

\* _process_function filing the record of a method under the top-level
\* functions as well
_process_function_both(node, is_async, st) ==
    LET fd == function_data(node, is_async)
        st1 == IF st.current_class # PyNone
               THEN [st EXCEPT !.current_class.methods = Append(@, fd),
                               !.structure.functions = Append(@, fd)]
               ELSE [st EXCEPT !.structure.functions = Append(@, fd)]
    IN  generic_visit(node, st1)

\* _process_function visiting the body of the function before it files
\* the record of the function
_process_function_body_first(node, is_async, st) ==
    LET fd == function_data(node, is_async)
        st0 == generic_visit(node, st)
    IN  IF st0.current_class # PyNone
        THEN [st0 EXCEPT !.current_class.methods = Append(@, fd)]
        ELSE [st0 EXCEPT !.structure.functions = Append(@, fd)]

_process_function(node, is_async, st) ==
    LET fd == function_data(node, is_async)
        st1 == IF st.current_class # PyNone
               THEN [st EXCEPT !.current_class.methods = Append(@, fd)]
               ELSE [st EXCEPT !.structure.functions = Append(@, fd)]
    IN  generic_visit(node, st1)

\* the loop over node.body of visit_ClassDef taking the body of a nested
\* class for a part of the body of the class around it
RECURSIVE ClassBody_inline(_, _)
ClassBody_inline(body, st) ==
    IF Len(body) = 0 \/ st.exc # "" THEN st
    ELSE IF body[1].k = "Assign"
    THEN ClassBody_inline(Tail(body),
                   [st EXCEPT !.current_class.class_vars =
                       @ \o ClassVarEntries(body[1])])
    ELSE IF body[1].k = "ClassDef"
    THEN ClassBody_inline(Tail(body), ClassBody_inline(body[1].body, st))
    ELSE ClassBody_inline(Tail(body), visit(body[1], st))

\* the loop over node.body of visit_ClassDef
ClassBody(body, st) ==
    IF Len(body) = 0 \/ st.exc # "" THEN st
    ELSE IF body[1].k = "Assign"
    THEN ClassBody(Tail(body),
                   [st EXCEPT !.current_class.class_vars =
                       @ \o ClassVarEntries(body[1])])
    ELSE ClassBody(Tail(body), visit(body[1], st))

\* visit_ClassDef without line 451: the current class stays the one of the
\* class just visited
visit_ClassDef_keeps(node, st) ==
    LET class_data == [name |-> node.name,
                       bases |-> ClassBases(node.bases),
                       docstring |-> get_docstring(node),
                       methods |-> <<>>,
                       class_vars |-> <<>>]
        st1 == ClassBody(node.body, [st EXCEPT !.current_class = class_data])
    IN  IF st1.exc # "" THEN st1
        ELSE [st1 EXCEPT !.structure.classes = Append(@, st1.current_class)]

visit_ClassDef(node, st) ==
    LET class_data == [name |-> node.name,
                       bases |-> ClassBases(node.bases),
                       docstring |-> get_docstring(node),
                       methods |-> <<>>,
                       class_vars |-> <<>>]
        old_class == st.current_class
        st1 == ClassBody(node.body, [st EXCEPT !.current_class = class_data])
    IN  IF st1.exc # "" THEN st1
        ELSE [st1 EXCEPT !.current_class = old_class,
                         !.structure.classes = Append(@, st1.current_class)]

\* ASTExtractor.extract_code_structure on a parsed tree: the structure it
\* returns, and exc, the exception that leaves the call ("" when none does)
extract_code_structure(tree) ==
    LET st == visit(_walk_tree_with_depth(tree, 0), NewExtractor)
        module_docstring == get_docstring(tree)
    IN  IF st.exc # "" THEN [structure |-> NewExtractor.structure, exc |-> st.exc]
        ELSE IF Truthy(module_docstring)
        THEN [structure |-> [imports |-> st.structure.imports,
                             global_vars |-> st.structure.global_vars,
                             functions |-> st.structure.functions,
                             classes |-> st.structure.classes,
                             module_docstring |-> module_docstring.s],
              exc |-> ""]
        ELSE [structure |-> st.structure, exc |-> ""]

(***************************************************************************)
(* IDLAdapter.convert.                                                     *)
(***************************************************************************)
\* the comment lines of a docstring
DocLines(doc, indent) ==
    LET parts == Split(doc, "\n")
    IN  [i \in 1..Len(parts) |-> indent \o "// " \o Strip(parts[i])]

ImportLine(imp) ==
    IF imp.type = "import"
    THEN IF Truthy(imp.alias)
         THEN "import " \o imp.name \o " as " \o imp.alias.s \o ";"
         ELSE "import " \o imp.name \o ";"
    ELSE "import " \o PyStrOf(imp.module) \o "." \o imp.name
           \o (IF Truthy(imp.alias) THEN " as " \o imp.alias.s ELSE "") \o ";"

GlobalVarLine(var) ==
    LET value_repr == IF var.value # PyNone THEN PyRepr(var.value) ELSE "undefined"
        cleaned == IF StartsWith(value_repr, "'<") /\ EndsWith(value_repr, ">'")
                   THEN SubSeq(value_repr, 2, Len(value_repr) - 1)
                   ELSE value_repr
    IN  "const " \o var.name \o " = " \o cleaned \o ";"

\* HttpMethod looking for the call substrings in the text as written
HttpMethod_case_sensitive(decorator_str) ==
    IF Contains(decorator_str, "get(") THEN "GET"
    ELSE IF Contains(decorator_str, "post(") THEN "POST"
    ELSE IF Contains(decorator_str, "put(") THEN "PUT"
    ELSE IF Contains(decorator_str, "delete(") THEN "DELETE"
    ELSE IF Contains(decorator_str, "patch(") THEN "PATCH"
    ELSE ""

\* HttpMethod looking for the call substrings in the text of the callee
\* alone, up to the first (
HttpMethod_callee(decorator_str) ==
    LET low == IF Contains(decorator_str, "(")
               THEN Lower(SubSeq(decorator_str, 1, Find(decorator_str, "(")))
               ELSE ""
    IN  IF Contains(low, "get(") THEN "GET"
        ELSE IF Contains(low, "post(") THEN "POST"
        ELSE IF Contains(low, "put(") THEN "PUT"
        ELSE IF Contains(low, "delete(") THEN "DELETE"
        ELSE IF Contains(low, "patch(") THEN "PATCH"
        ELSE ""

\* the HTTP method chosen for a decorator text, "" when none is found
HttpMethod(decorator_str) ==
    LET low == Lower(decorator_str)
    IN  IF Contains(low, "get(") THEN "GET"
        ELSE IF Contains(low, "post(") THEN "POST"
        ELSE IF Contains(low, "put(") THEN "PUT"
        ELSE IF Contains(low, "delete(") THEN "DELETE"
        ELSE IF Contains(low, "patch(") THEN "PATCH"
        ELSE ""

\* args_parts: the text between the first ( and the last ) after it, cut
\* at every comma; empty when the text has no ( or no )
ArgsParts(decorator_str) ==
    IF Contains(decorator_str, "(") /\ Contains(decorator_str, ")")
    THEN Split(BeforeLast(AfterFirst(decorator_str, "("), ")"), ",")
    ELSE <<>>

\* the path taken from args_parts
RoutePath(args_parts) ==
    IF /\ Len(args_parts) > 0
       /\ (Contains(args_parts[1], "\"") \/ Contains(args_parts[1], "'"))
    THEN StripChars(Strip(args_parts[1]), Quotes)
    ELSE ""

\* the tags one part of args_parts sets, given the tags found so far
PartTags(part, tags) ==
    IF Contains(part, "tags=")
    THEN LET tags_str == Strip(AfterFirst(part, "tags="))
         IN  IF StartsWith(tags_str, "[") /\ Contains(tags_str, "]")
             THEN LET tags_content == BeforeFirst(AfterFirst(tags_str, "["), "]")
                      ts == SelectSeq(Split(tags_content, ","),
                                      LAMBDA t : Strip(t) # "")
                  IN  [i \in 1..Len(ts) |-> StripChars(Strip(ts[i]), Quotes)]
             ELSE tags
    ELSE tags

\* the loop over args_parts that looks for tags
RECURSIVE RouteTags(_, _)
RouteTags(args_parts, tags) ==
    IF Len(args_parts) = 0 THEN tags
    ELSE RouteTags(Tail(args_parts), PartTags(args_parts[1], tags))

\* str(tags) of a list of str
TagsRepr(tags) == "[" \o Join([i \in 1..Len(tags) |-> ReprStr(tags[i])], ", ") \o "]"

RouteLine(http_method, path, tags) ==
    IF Len(tags) > 0
    THEN "@Route(method=" \o http_method \o ", path=\"" \o path \o "\", tags="
           \o TagsRepr(tags) \o ")"
    ELSE "@Route(method=" \o http_method \o ", path=\"" \o path \o "\")"

\* the annotation line of one decorator of a top-level function
FunctionDecoratorLine(decorator) ==
    IF Contains(decorator, "router.")
    THEN LET http_method == HttpMethod(decorator)
             args_parts == ArgsParts(decorator)
             path == RoutePath(args_parts)
             tags == RouteTags(args_parts, <<>>)
         IN  IF http_method # "" /\ path # ""
             THEN RouteLine(http_method, path, tags)
             ELSE "@" \o decorator
    ELSE "@" \o decorator

\* the annotation line of one decorator of a method
MethodDecoratorLine(decorator) == "  @" \o decorator

\* one parameter of a signature
ParamStr(param, prefix) ==
    prefix \o (IF "type" \in DOMAIN param /\ Truthy(param.type)
               THEN param.type.s \o " " ELSE "")
           \o param.name

ParamsStr(params, prefix) ==
    Join([i \in 1..Len(params) |-> ParamStr(params[i], prefix)], ", ")

\* func.get("return_type", "void"), formatted
ReturnType(func) ==
    IF "return_type" \in DOMAIN func THEN PyStrOf(func.return_type) ELSE "void"

\* the lines of one top-level function
FunctionLines(func) ==
    (IF Truthy(func.docstring) THEN DocLines(func.docstring.s, "") ELSE <<>>)
    \o (IF func.is_async THEN <<"// This is an async function">> ELSE <<>>)
    \o [i \in 1..Len(func.decorators) |-> FunctionDecoratorLine(func.decorators[i])]
    \o <<"function " \o func.name \o "(" \o ParamsStr(func.params, "in ")
           \o ") returns " \o ReturnType(func) \o ";",
         "">>

ClassVarLine(var) ==
    IF var.value # PyNone
    THEN "  const " \o var.name \o " = " \o PyRepr(var.value) \o ";"
    ELSE "  const " \o var.name \o " = undefined;"

\* the constructor lines of a class: those of the first method named
\* __init__, none when there is no such method
ConstructorLines(methods) ==
    LET inits == SelectSeq(methods, LAMBDA m : m.name = "__init__")
    IN  IF Len(inits) = 0 THEN <<>>
        ELSE LET init_method == inits[1]
                 line == "  constructor("
                           \o ParamsStr(IF Len(init_method.params) = 0 THEN <<>>
                                        ELSE Tail(init_method.params), "") \o ");"
             IN  <<IF Truthy(init_method.docstring)
                   THEN line \o "  // " \o Split(init_method.docstring.s, "\n")[1]
                   ELSE line,
                   "">>

\* every method rendered as an ordinary method, __init__ included
OrdinaryMethods_unfiltered(methods) == methods

\* the methods rendered as ordinary methods
OrdinaryMethods(methods) == SelectSeq(methods, LAMBDA m : m.name # "__init__")

\* the lines of one ordinary method
MethodLines(method) ==
    LET is_static == \E i \in 1..Len(method.decorators) :
                        method.decorators[i] = "staticmethod"
        method_params ==
            IF /\ ~is_static
               /\ Len(method.params) > 0
               /\ method.params[1].name = "self"
            THEN Tail(method.params)
            ELSE method.params
    IN  (IF Truthy(method.docstring) THEN DocLines(method.docstring.s, "  ") ELSE <<>>)
        \o (IF method.is_async THEN <<"  // This is an async method">> ELSE <<>>)
        \o [i \in 1..Len(method.decorators) |-> MethodDecoratorLine(method.decorators[i])]
        \o <<(IF is_static THEN "  static " ELSE "  ")
               \o method.name \o "(" \o ParamsStr(method_params, "in ")
               \o ") returns " \o ReturnType(method) \o ";",
             "">>

RECURSIVE Flatten(_)
Flatten(seqs) == IF Len(seqs) = 0 THEN <<>> ELSE seqs[1] \o Flatten(Tail(seqs))

\* the lines of one class
ClassLines(cls) ==
    LET ordinary == OrdinaryMethods(cls.methods)
    IN  <<"interface " \o cls.name
            \o (IF Len(cls.bases) > 0 THEN " extends " \o Join(cls.bases, ", ") ELSE "")
            \o " {">>
        \o (IF Truthy(cls.docstring)
            THEN DocLines(cls.docstring.s, "  ") \o <<"">> ELSE <<>>)
        \o [i \in 1..Len(cls.class_vars) |-> ClassVarLine(cls.class_vars[i])]
        \o (IF Len(cls.class_vars) > 0 THEN <<"">> ELSE <<>>)
        \o ConstructorLines(cls.methods)
        \o Flatten([i \in 1..Len(ordinary) |-> MethodLines(ordinary[i])])
        \o <<"};", "">>

\* the list lines of IDLAdapter.convert at its return
IDLLines(structure) ==
    (IF "module_docstring" \in DOMAIN structure
     THEN DocLines(structure.module_docstring, "") \o <<"">> ELSE <<>>)
    \o [i \in 1..Len(structure.imports) |-> ImportLine(structure.imports[i])]
    \o (IF Len(structure.imports) > 0 THEN <<"">> ELSE <<>>)
    \o [i \in 1..Len(structure.global_vars) |-> GlobalVarLine(structure.global_vars[i])]
    \o (IF Len(structure.global_vars) > 0 THEN <<"">> ELSE <<>>)
    \o Flatten([i \in 1..Len(structure.functions) |->
                  FunctionLines(structure.functions[i])])
    \o Flatten([i \in 1..Len(structure.classes) |-> ClassLines(structure.classes[i])])

\* the structure left by a convert that skips self by removing it from the
\* params list of the constructor instead of slicing a copy
IDLStructureAfter_pops_self(structure) ==
    [structure EXCEPT !.classes =
        [c \in 1..Len(structure.classes) |->
            LET methods == structure.classes[c].methods
                inits == {i \in 1..Len(methods) : methods[i].name = "__init__"}
            IN  IF inits = {} THEN structure.classes[c]
                ELSE [structure.classes[c] EXCEPT
                        !.methods[CHOOSE i \in inits : \A j \in inits : i <= j].params =
                            Tail(@)]]]

\* the structure as IDLAdapter.convert leaves it: convert assigns to its
\* locals only (method_params[1:] is a copy)
IDLStructureAfter(structure) == structure

\* IDLAdapter.convert: the text returned and the structure after the call
IDLAdapter_convert(structure) ==
    [out |-> Join(IDLLines(structure), "\n"),
     structure |-> IDLStructureAfter(structure)]

(***************************************************************************)
(* JSONAdapter.convert: json.dumps(structure, indent=2).                   *)
(***************************************************************************)
KV(key, val) == [key |-> PyStr(key), val |-> val]

\* the structure as the tree of Python values json.dumps walks
PyOfSeq(items) == PyList(items \o <<>>)

PyOfImport(imp) ==
    IF imp.type = "import"
    THEN PyDict(<<KV("type", PyStr(imp.type)), KV("name", PyStr(imp.name)),
                  KV("alias", imp.alias)>>)
    ELSE PyDict(<<KV("type", PyStr(imp.type)), KV("module", imp.module),
                  KV("name", PyStr(imp.name)), KV("alias", imp.alias)>>)

PyOfVar(var) == PyDict(<<KV("name", PyStr(var.name)), KV("value", var.value)>>)

PyOfParam(param) ==
    PyDict(<<KV("name", PyStr(param.name))>>
           \o (IF "type" \in DOMAIN param THEN <<KV("type", param.type)>> ELSE <<>>))

PyOfFunction(func) ==
    PyDict(<<KV("name", PyStr(func.name)),
             KV("params", PyOfSeq([i \in 1..Len(func.params) |-> PyOfParam(func.params[i])])),
             KV("docstring", func.docstring),
             KV("return_type", func.return_type),
             KV("decorators", PyOfSeq([i \in 1..Len(func.decorators) |-> PyStr(func.decorators[i])])),
             KV("is_async", PyBool(func.is_async))>>)

PyOfClass(cls) ==
    PyDict(<<KV("name", PyStr(cls.name)),
             KV("bases", PyOfSeq([i \in 1..Len(cls.bases) |-> PyStr(cls.bases[i])])),
             KV("docstring", cls.docstring),
             KV("methods", PyOfSeq([i \in 1..Len(cls.methods) |-> PyOfFunction(cls.methods[i])])),
             KV("class_vars", PyOfSeq([i \in 1..Len(cls.class_vars) |-> PyOfVar(cls.class_vars[i])]))>>)

PyOfStructure(structure) ==
    PyDict(<<KV("imports", PyOfSeq([i \in 1..Len(structure.imports) |-> PyOfImport(structure.imports[i])])),
             KV("global_vars", PyOfSeq([i \in 1..Len(structure.global_vars) |-> PyOfVar(structure.global_vars[i])])),
             KV("functions", PyOfSeq([i \in 1..Len(structure.functions) |-> PyOfFunction(structure.functions[i])])),
             KV("classes", PyOfSeq([i \in 1..Len(structure.classes) |-> PyOfClass(structure.classes[i])]))>>
           \o (IF "module_docstring" \in DOMAIN structure
               THEN <<KV("module_docstring", PyStr(structure.module_docstring))>>
               ELSE <<>>))

\* json.dumps raises TypeError on v: a bytes value, or a dict key that is
\* not a str, int, bool or None
RECURSIVE JSONSerializable(_)
JSONSerializable(v) ==
    CASE v.t \in {"None", "str", "int", "bool"} -> TRUE
      [] v.t \in {"list", "tuple"} ->
           \A i \in 1..Len(v.elts) : JSONSerializable(v.elts[i])
      [] v.t = "dict" ->
           \A i \in 1..Len(v.items) :
              /\ v.items[i].key.t \in {"None", "str", "int", "bool"}
              /\ JSONSerializable(v.items[i].val)
      [] OTHER -> FALSE

JSONEscapeChar(c) ==
    CASE c = "\"" -> "\\\""
      [] c = "\\" -> "\\\\"
      [] c = "\n" -> "\\n"
      [] c = "\t" -> "\\t"
      [] OTHER -> c

RECURSIVE JSONEscape(_)
JSONEscape(s) ==
    IF Len(s) = 0 THEN ""
    ELSE JSONEscapeChar(Char(s, 1)) \o JSONEscape(SubSeq(s, 2, Len(s)))

JSONString(s) == "\"" \o JSONEscape(s) \o "\""

\* the name json.dumps writes for a dict key
JSONKey(key) ==
    CASE key.t = "str" -> key.s
      [] key.t = "int" -> IntStr(key.n)
      [] key.t = "bool" -> IF key.b THEN "true" ELSE "false"
      [] key.t = "None" -> "null"

RECURSIVE JSONIndent(_)
JSONIndent(level) == IF level = 0 THEN "" ELSE "  " \o JSONIndent(level - 1)

\* the text of a serializable value at a nesting level, indent=2
RECURSIVE JSONText(_, _)
JSONText(v, level) ==
    CASE v.t = "None" -> "null"
      [] v.t = "bool" -> IF v.b THEN "true" ELSE "false"
      [] v.t = "int" -> IntStr(v.n)
      [] v.t = "str" -> JSONString(v.s)
      [] v.t \in {"list", "tuple"} ->
           IF Len(v.elts) = 0 THEN "[]"
           ELSE "[\n"
                  \o Join([i \in 1..Len(v.elts) |->
                             JSONIndent(level + 1) \o JSONText(v.elts[i], level + 1)],
                          ",\n")
                  \o "\n" \o JSONIndent(level) \o "]"
      [] v.t = "dict" ->
           IF Len(v.items) = 0 THEN "{}"
           ELSE "{\n"
                  \o Join([i \in 1..Len(v.items) |->
                             JSONIndent(level + 1)
                               \o JSONString(JSONKey(v.items[i].key)) \o ": "
                               \o JSONText(v.items[i].val, level + 1)],
                          ",\n")
                  \o "\n" \o JSONIndent(level) \o "}"

\* JSONAdapter.convert: the text returned, exc when json.dumps raises, and
\* the structure after the call (json.dumps only reads it)
JSONAdapter_convert(structure) ==
    CHOOSE res \in
        {IF JSONSerializable(v)
         THEN [out |-> JSONText(v, 0), exc |-> "", structure |-> structure]
         ELSE [out |-> "", exc |-> "TypeError", structure |-> structure] :
            v \in {PyOfStructure(structure)}} : TRUE

(***************************************************************************)
(* The sources that are enumerated.                                        *)
(***************************************************************************)
NoArgs == arguments(<<>>, NoNode, NoNode)
SelfArgs == arguments(<<arg("self", NoNode)>>, NoNode, NoNode)
SelfAnd(name) == arguments(<<arg("self", NoNode), arg(name, NoNode)>>, NoNode, NoNode)
RouterGet == Attribute(Name("router"), "get")
CallF == Call(Name("f"), <<>>, <<>>)
UnionType == BinOp(Name("int"), "|", Name("str"))

\* X = {"a": 1}
AssignXDict == Assign(<<Name("X")>>, Dict(<<Str("a")>>, <<Num(1)>>))
\* X = 2
AssignX2 == Assign(<<Name("X")>>, Num(2))
\* Y = {[1]: 2}
AssignYListKey == Assign(<<Name("Y")>>, Dict(<<List(<<Num(1)>>)>>, <<Num(2)>>))
\* import os as o
ImportOs == Import(<<alias("os", PyStr("o"))>>)
\* @router.get('/u')
\* def f(a: x.y, b: int | str, c: "T", *rest: int | str) -> int | str:
\*     tmp = 3
\*     def h(): inner = {[1]: 2}
DefF ==
    FunctionDef("f",
        arguments(<<arg("a", Attribute(Name("x"), "y")), arg("b", UnionType),
                    arg("c", Str("T"))>>,
                  arg("rest", UnionType), NoNode),
        <<Assign(<<Name("tmp")>>, Num(3)),
          FunctionDef("h", NoArgs,
                      <<Assign(<<Name("inner")>>,
                               Dict(<<List(<<Num(1)>>)>>, <<Num(2)>>))>>,
                      <<>>, NoNode)>>,
        <<Call(RouterGet, <<Str("/u")>>, <<>>)>>,
        UnionType)
\* async def g(o, /, p: List[int], *, k, **kw) -> str: "Runs g."
DefG ==
    AsyncFunctionDef("g",
        arguments_all(<<arg("o", NoNode)>>,
                      <<arg("p", Subscript(Name("List"), Name("int")))>>, NoNode,
                      <<arg("k", NoNode)>>, arg("kw", NoNode)),
        <<Expr(Str("Runs g."))>>, <<>>, Name("str"))
\* class C(Base, f()):
\*     v = 1
\*     w = f()
\*     def __init__(self, a): pass
\*     @router.get('/m')
\*     def m(self, q):
\*         local = 1
\*         def helper(): pass
ClassC ==
    ClassDef("C", <<Name("Base"), CallF>>,
        <<Assign(<<Name("v")>>, Num(1)),
          Assign(<<Name("w")>>, CallF),
          FunctionDef("__init__", SelfAnd("a"), <<>>, <<>>, NoNode),
          FunctionDef("m", SelfAnd("q"),
                      <<Assign(<<Name("local")>>, Num(1)),
                        FunctionDef("helper", NoArgs, <<>>, <<>>, NoNode)>>,
                      <<Call(RouterGet, <<Str("/m")>>, <<>>)>>, NoNode)>>)
\* class D:
\*     a.b = 1
\*     u: int = 1
\*     def __init__(self, a): pass
\*     def __init__(self, b): "Second."
\*     class E:
\*         e = 5
\*         def __init__(self): pass
\*     def after(self): pass
ClassD ==
    ClassDef("D", <<>>,
        <<Assign(<<Attribute(Name("a"), "b")>>, Num(1)),
          AnnAssign(Name("u"), Name("int"), Num(1)),
          FunctionDef("__init__", SelfAnd("a"), <<>>, <<>>, NoNode),
          FunctionDef("__init__", SelfAnd("b"), <<Expr(Str("Second."))>>, <<>>, NoNode),
          ClassDef("E", <<>>,
                   <<Assign(<<Name("e")>>, Num(5)),
                     FunctionDef("__init__", SelfArgs, <<>>, <<>>, NoNode)>>),
          FunctionDef("after", SelfArgs, <<>>, <<>>, NoNode)>>)
\* class K:
\*     raw = b'k'
\*     @staticmethod
\*     def run(n): pass
\*     def constructor(self): pass
\*     def peer(this, o): pass
ClassK ==
    ClassDef("K", <<>>,
        <<Assign(<<Name("raw")>>, Constant(PyBytes("k"))),
          FunctionDef("run", arguments(<<arg("n", NoNode)>>, NoNode, NoNode),
                      <<>>, <<Name("staticmethod")>>, NoNode),
          FunctionDef("constructor", SelfArgs, <<>>, <<>>, NoNode),
          FunctionDef("peer",
                      arguments(<<arg("this", NoNode), arg("o", NoNode)>>, NoNode, NoNode),
                      <<>>, <<>>, NoNode)>>)
\* if ...: X = 4
IfAssign == If(<<Assign(<<Name("X")>>, Num(4))>>)
\* "Doc."
DocExpr == Expr(Str("Doc."))

\* the statements a module body is made of
Stmts ==
    {AssignXDict, AssignX2, AssignYListKey, ImportOs, DefF, DefG,
     ClassC, ClassD, ClassK, IfAssign, DocExpr}

RECURSIVE SeqsUpTo(_, _)
SeqsUpTo(S, n) ==
    IF n = 0 THEN {<<>>}
    ELSE LET shorter == SeqsUpTo(S, n - 1)
         IN  shorter \cup {Append(q, x) : q \in shorter, x \in S}

GeneralSources == {Module(body) : body \in SeqsUpTo(Stmts, MaxStmts)}

\* the callees, argument lists and tags of the decorators
Callees ==
    {RouterGet,
     Attribute(Name("router"), "post"),
     Attribute(Name("router"), "GET"),
     Attribute(Name("router"), "route"),
     Attribute(Name("Router"), "get"),
     Attribute(Name("app"), "get")}

ArgLists ==
    {<<>>, <<Str("/users")>>, <<Str("/a,b")>>, <<Str("")>>,
     <<Name("prefix"), Str("/x")>>, <<Str("it's")>>}

TagNames == <<"admin", "ops", "dev", "qa">>

\* no keyword, and tags=[...] of every length up to MaxTags
KeywordLists ==
    {<<>>} \cup {<<keyword("tags",
                           List([i \in 1..n |-> Str(TagNames[i])]))>> : n \in 0..MaxTags}

DecoratorNodes ==
    {Call(c, a, kw) : c \in Callees, a \in ArgLists, kw \in KeywordLists}
    \cup {Name("staticmethod"), RouterGet,
          Call(Attribute(Name("router"), "post"), <<Call(Name("get"), <<Str("/x")>>, <<>>)>>,
               <<>>),
          Call(Attribute(Name("router"), "post"), <<Str("/x")>>,
               <<keyword("dep", Call(Name("get"), <<>>, <<>>))>>),
          Call(Attribute(Name("router"), "delete"), <<Str("/budget(1)")>>, <<>>)}

FunctionWith(d) == Module(<<FunctionDef("f", NoArgs, <<>>, <<d>>, NoNode)>>)
MethodWith(d) ==
    Module(<<ClassDef("C", <<>>, <<FunctionDef("m", SelfArgs, <<>>, <<d>>, NoNode)>>)>>)

DecoratorSources ==
    {FunctionWith(d) : d \in DecoratorNodes} \cup {MethodWith(d) : d \in DecoratorNodes}

Sources == GeneralSources \cup DecoratorSources

(***************************************************************************)
(* The state machine: one source is parsed, extract_code_structure is      *)
(* called on it, and the adapters are called on the structure, each up to  *)
(* MaxCalls times (transform_content and main make these calls).           *)
(***************************************************************************)
VARIABLES
    src,          \* the tree of the source
    pc,           \* "parsed", "extracted" or "failed"
    structure,    \* the structure dictionary
    exc,          \* the exception that left extract_code_structure, or ""
    idl_out,      \* the texts returned by the calls of IDLAdapter.convert
    json_out,     \* the results of the calls of JSONAdapter.convert
    node,         \* the expression handed to the renderers
    rendered,     \* the results of the renderers called on node so far
    all_files,    \* the shared list of files the consumer threads pop from
    workers,      \* each consumer thread's position and local variables
    extractors,   \* the CodeStructureExtractor instances constructed so far
    append_content_list,  \* the shared list the consumer threads append to
    batch,        \* the run of main on a path: the walk and what it has given
    app,          \* the run of append-files: its options, lists and threads
    redact        \* the call of redact_secrets: its content, line and counters

vars == <<src, pc, structure, exc, idl_out, json_out, node, rendered,
          all_files, workers, extractors, append_content_list, batch, app, redact>>

\* the variables of the consumer threads
conc_vars == <<all_files, workers, extractors, append_content_list>>

\* the variables of one extraction and its conversions, and of the renderers
seq_vars == <<src, pc, structure, exc, idl_out, json_out, node, rendered>>

\* no consumer thread runs
NoConsumers ==
    /\ all_files = <<>>
    /\ workers = <<>>
    /\ extractors = <<>>
    /\ append_content_list = <<>>

Init ==
    /\ src \in Sources
    /\ pc = "parsed"
    /\ structure = NewExtractor.structure
    /\ exc = ""
    /\ idl_out = <<>>
    /\ json_out = <<>>
    /\ node = NoNode
    /\ rendered = <<>>
    /\ NoConsumers
    /\ batch = <<>>
    /\ app = <<>>
    /\ redact = <<>>

Extract ==
    /\ pc = "parsed"
    /\ \E r \in {extract_code_structure(src)} :
           /\ structure' = r.structure
           /\ exc' = r.exc
           /\ pc' = IF r.exc = "" THEN "extracted" ELSE "failed"
    /\ UNCHANGED <<src, idl_out, json_out, node, rendered>>
    /\ UNCHANGED <<conc_vars, batch, app, redact>>

ConvertIDL ==
    /\ pc = "extracted"
    /\ Len(idl_out) < MaxCalls
    /\ \E r \in {IDLAdapter_convert(structure)} :
           /\ idl_out' = Append(idl_out, r.out)
           /\ structure' = r.structure
    /\ UNCHANGED <<src, pc, exc, json_out, node, rendered>>
    /\ UNCHANGED <<conc_vars, batch, app, redact>>

ConvertJSON ==
    /\ pc = "extracted"
    /\ Len(json_out) < MaxCalls
    /\ \E r \in {JSONAdapter_convert(structure)} :
           /\ json_out' = Append(json_out, [out |-> r.out, exc |-> r.exc])
           /\ structure' = r.structure
    /\ UNCHANGED <<src, pc, exc, idl_out, node, rendered>>
    /\ UNCHANGED <<conc_vars, batch, app, redact>>

Next == Extract \/ ConvertIDL \/ ConvertJSON

Spec == Init /\ [][Next]_vars

(***************************************************************************)
(* The renderers on their own: an expression is drawn and _extract_value,  *)
(* _get_annotation_str and _get_decorator_str are called on it.            *)
(***************************************************************************)
Leaves == {Num(1), Str("a"), Str("<X>"), Name("X"), CallF, Attribute(Name("a"), "b")}

\* lists, tuples, dicts, subscripts and calls over a set of expressions
Containers(S) ==
    {List(<<x>>) : x \in S} \cup {Tuple(<<x>>) : x \in S}
    \cup {Subscript(Name("List"), x) : x \in S}
    \cup {Call(RouterGet, <<x>>, <<keyword("tags", x)>>) : x \in S}

Nested1 ==
    Leaves \cup Containers(Leaves)
    \cup {Dict(<<x>>, <<y>>) : x \in Leaves, y \in Leaves}
    \cup {UnionType}

\* two levels of nesting, a dict key being any expression of one level, and
\* the absent node
ExprNodes ==
    Nested1 \cup Containers(Nested1)
    \cup {Dict(<<x>>, <<Num(2)>>) : x \in Nested1}
    \cup {NoNode}

InitRender ==
    /\ node \in ExprNodes
    /\ rendered = <<>>
    /\ src = Module(<<>>)
    /\ pc = "render"
    /\ structure = NewExtractor.structure
    /\ exc = ""
    /\ idl_out = <<>>
    /\ json_out = <<>>
    /\ NoConsumers
    /\ batch = <<>>
    /\ app = <<>>
    /\ redact = <<>>

RenderValue ==
    /\ pc = "render"
    /\ "value" \notin DOMAIN rendered
    /\ rendered' = rendered @@ ("value" :> _extract_value(node))
    /\ UNCHANGED <<src, pc, structure, exc, idl_out, json_out, node>>
    /\ UNCHANGED <<conc_vars, batch, app, redact>>

RenderAnnotation ==
    /\ pc = "render"
    /\ "annotation" \notin DOMAIN rendered
    /\ rendered' = rendered @@ ("annotation" :> _get_annotation_str(node))
    /\ UNCHANGED <<src, pc, structure, exc, idl_out, json_out, node>>
    /\ UNCHANGED <<conc_vars, batch, app, redact>>

RenderDecorator ==
    /\ pc = "render"
    /\ "decorator" \notin DOMAIN rendered
    /\ rendered' = rendered @@ ("decorator" :> _get_decorator_str(node))
    /\ UNCHANGED <<src, pc, structure, exc, idl_out, json_out, node>>
    /\ UNCHANGED <<conc_vars, batch, app, redact>>

NextRender == RenderValue \/ RenderAnnotation \/ RenderDecorator

SpecRender == InitRender /\ [][NextRender]_vars

(***************************************************************************)
(* Reading the source and the output, for the properties below.            *)
(***************************************************************************)
Count(S) == Cardinality(S)

\* the simple names a plain assignment binds
TargetNames(stmt) ==
    {stmt.targets[i].id : i \in {j \in 1..Len(stmt.targets) : stmt.targets[j].k = "Name"}}

\* the positions of the plain assignments to name directly in a body
AssignsTo(body, name) ==
    {i \in 1..Len(body) : body[i].k = "Assign" /\ name \in TargetNames(body[i])}

\* the simple names assigned directly in a body
NamesAssigned(body) ==
    UNION {TargetNames(body[i]) : i \in {j \in 1..Len(body) : body[j].k = "Assign"}}

Min(S) == CHOOSE i \in S : \A j \in S : i <= j

\* the simple names assigned outside every function and class body
RECURSIVE NamesOutside(_)
NamesOutside(body) ==
    NamesAssigned(body)
    \cup UNION {NamesOutside(body[i].body) : i \in {j \in 1..Len(body) : body[j].k = "If"}}

\* every class definition of a tree
RECURSIVE ClassDefsIn(_)
ClassDefsIn(body) ==
    UNION {(IF body[i].k = "ClassDef" THEN {body[i]} ELSE {})
             \cup (IF HasBody(body[i]) THEN ClassDefsIn(body[i].body) ELSE {})
           : i \in 1..Len(body)}

\* the statements of a class body that assign: plain and annotated
ClassAssignments(cls) ==
    {i \in 1..Len(cls.body) : cls.body[i].k \in {"Assign", "AnnAssign"}}

\* the entries of structure.classes for a class name
ClassData(name) ==
    {structure.classes[i] : i \in {j \in 1..Len(structure.classes) :
                                     structure.classes[j].name = name}}

\* the names of a list of variable entries, in order
VarNames(entries) == [i \in 1..Len(entries) |-> entries[i].name]

\* the simple names the plain assignments of a class body bind, in order
RECURSIVE ClassBodyNames(_)
ClassBodyNames(body) ==
    IF Len(body) = 0 THEN <<>>
    ELSE (IF body[1].k = "Assign"
          THEN LET names == SelectSeq(body[1].targets, LAMBDA tg : tg.k = "Name")
               IN  [i \in 1..Len(names) |-> names[i].id]
          ELSE <<>>)
         \o ClassBodyNames(Tail(body))

\* the lines of the first IDL text
IdlLines == Split(idl_out[1], "\n")

IsRouteLine(line) == StartsWith(line, "@Route(method=")

\* the route lines among lines
RouteLinesOf(lines) == {lines[i] : i \in {j \in 1..Len(lines) : IsRouteLine(lines[j])}}

\* the lines as a set
LineSet(lines) == {lines[i] : i \in 1..Len(lines)}

\* the block of the n-th class of the IDL text: from its interface line to
\* its closing line
ClassBlock(lines, n) ==
    LET heads == {i \in 1..Len(lines) : StartsWith(lines[i], "interface ")}
        h == CHOOSE i \in heads : Count({j \in heads : j < i}) = n - 1
        e == Min({j \in (h + 1)..Len(lines) : lines[j] = "};"})
    IN  SubSeq(lines, h, e)

\* the signature line of an ordinary method of that name
IsMethodLine(line, name) ==
    /\ \/ StartsWith(line, "  " \o name \o "(")
       \/ StartsWith(line, "  static " \o name \o "(")
    /\ Contains(line, ") returns ")

IsConstructorLine(line) ==
    StartsWith(line, "  constructor(") /\ ~IsMethodLine(line, "constructor")

\* the call substrings of the route trigger
MethodCalls == {"get(", "post(", "put(", "delete(", "patch("}

RouteTrigger(text) ==
    /\ Contains(text, "router.")
    /\ \E m \in MethodCalls : Contains(Lower(text), m)

\* the top-level functions of the source and their decorators
TopFunctions == {i \in 1..Len(src.body) : src.body[i].k \in {"FunctionDef", "AsyncFunctionDef"}}

TopDecorators ==
    UNION {{src.body[i].decorator_list[j] : j \in 1..Len(src.body[i].decorator_list)}
           : i \in TopFunctions}

\* the string literals of a tags=[...] keyword of a decorator call
TagsOf(d) ==
    LET kws == SelectSeq(d.keywords, LAMBDA kw : kw.arg = "tags")
    IN  IF Len(kws) = 0 \/ kws[1].value.k # "List" THEN <<>>
        ELSE [i \in 1..Len(kws[1].value.elts) |-> kws[1].value.elts[i].value.s]

\* the string literals among the positional arguments of a decorator call
StringArgs(d) ==
    SelectSeq(d.args, LAMBDA a : a.k = "Constant" /\ a.value.t = "str")

\* the text of a route line from its path on
FromPath(line) == AfterFirst(line, ", path=")

(***************************************************************************)
(* Properties.                                                             *)
(***************************************************************************)
\* C1: when the module body assigns a simple name twice or more, global_vars
\* holds exactly one entry for that name, with the rendered value of the
\* first of those assignments.
C1_FirstAssignmentWins ==
    pc = "extracted" =>
        \A name \in NamesAssigned(src.body) :
            Count(AssignsTo(src.body, name)) >= 2 =>
                LET first == src.body[Min(AssignsTo(src.body, name))]
                    entries == {i \in 1..Len(structure.global_vars) :
                                  structure.global_vars[i].name = name}
                IN  /\ Count(entries) = 1
                    /\ \A i \in entries :
                          structure.global_vars[i].value = _extract_value(first.value)

\* C2, as stated: no assignment inside a function or method body adds to
\* global_vars, and every assignment directly in a class body adds an entry
\* to that class's class_vars and none to global_vars.
C2_EveryClassAssignmentRecorded ==
    pc = "extracted" =>
        /\ \A i \in 1..Len(structure.global_vars) :
              structure.global_vars[i].name \in NamesOutside(src.body)
        /\ \A cls \in ClassDefsIn(src.body) :
              /\ ClassData(cls.name) # {}
              /\ \A data \in ClassData(cls.name) :
                    Len(data.class_vars) >= Count(ClassAssignments(cls))

\* C2, amended: no assignment inside a function or method body adds to
\* global_vars, and the class_vars of a class are, in order, the simple
\* names that the plain assignments directly in its body bind, none of
\* which is added to global_vars.
C2_ScopedAssignments ==
    pc = "extracted" =>
        /\ \A i \in 1..Len(structure.global_vars) :
              structure.global_vars[i].name \in NamesOutside(src.body)
        /\ \A cls \in ClassDefsIn(src.body) :
              /\ ClassData(cls.name) # {}
              /\ \A data \in ClassData(cls.name) :
                    VarNames(data.class_vars) = ClassBodyNames(cls.body)

\* a class and a function that both assign in their bodies have been extracted
C2_Witness ==
    /\ pc = "extracted"
    /\ src.body = <<DefF, ClassC>>
    /\ \E data \in ClassData("C") : VarNames(data.class_vars) = <<"v", "w">>
    /\ Len(structure.functions) = 2

\* C3: extract_code_structure raises nothing on a parsed tree, whatever
\* annotations, decorator arguments, assigned values and base classes it
\* holds.
C3_ExtractNeverRaises == pc # "failed" /\ exc = ""

\* a source with an unhashable dict key, a union annotation, a dotted
\* annotation and a decorator call has been extracted
C3_Witness ==
    /\ pc = "extracted"
    /\ src.body = <<AssignYListKey, DefF>>
    /\ Len(structure.functions) = 2

\* C4: each of the three renderers returns a value or a sentinel for every
\* expression and never fails.
\* (_get_annotation_str and _get_decorator_str end in a text on every
\* branch; _extract_value is the one that can end in an exception.)
C4_RenderersTotal == "value" \in DOMAIN rendered => ~IsRaise(rendered.value)

C6_OneConstructorLine ==
    Len(idl_out) >= 1 =>
        \A n \in 1..Len(structure.classes) :
            LET block == ClassBlock(IdlLines \o <<>>, n)
                inits == {i \in 1..Len(structure.classes[n].methods) :
                            structure.classes[n].methods[i].name = "__init__"}
            IN  /\ Count({i \in 1..Len(block) : IsConstructorLine(block[i])})
                     = (IF inits # {} THEN 1 ELSE 0)
                /\ \A i \in 1..Len(block) : ~IsMethodLine(block[i], "__init__")

\* the IDL of a class with two __init__ methods and of a class with none
C6_Witness ==
    /\ Len(idl_out) >= 1
    /\ src.body = <<ClassD, ClassK>>
    /\ structure.classes[2].name = "D" /\ structure.classes[3].name = "K"
    /\ Count({i \in 1..Len(structure.classes[2].methods) :
                structure.classes[2].methods[i].name = "__init__"}) = 2
    /\ \A i \in 1..Len(structure.classes[3].methods) :
            structure.classes[3].methods[i].name # "__init__"

\* C7, as stated: a decorator of a top-level function is emitted as a
\* @Route(...) line if and only if its text holds "router." and one of the
\* call substrings (in any case); otherwise it is emitted verbatim after @.
C7_RouteIffTrigger ==
    Len(idl_out) >= 1 =>
        LET lines == LineSet(IdlLines)
            routes == RouteLinesOf(IdlLines)
        IN  \A i \in 1..Len(structure.functions) :
                \A j \in 1..Len(structure.functions[i].decorators) :
                    LET text == structure.functions[i].decorators[j]
                    IN  IF RouteTrigger(text)
                        THEN routes # {} /\ ("@" \o text) \notin lines
                        ELSE ("@" \o text) \in lines

\* C7, amended: the @Route(...) line is emitted if and only if the text
\* holds "router." and one of the call substrings (in any case) and the
\* text of its argument list up to the first comma holds a quote and is not
\* empty once blanks and quotes are stripped; otherwise the decorator is
\* emitted verbatim after @.  No other line is a @Route(...) line.
C7_RouteIffTriggerAndPath ==
    Len(idl_out) >= 1 =>
        LET lines == LineSet(IdlLines)
            routes == RouteLinesOf(IdlLines)
            texts == UNION {{structure.functions[i].decorators[j]
                               : j \in 1..Len(structure.functions[i].decorators)}
                            : i \in 1..Len(structure.functions)}
            Normalized(text) ==
                LET first == BeforeFirst(BeforeLast(AfterFirst(text, "("), ")"), ",")
                IN  /\ RouteTrigger(text)
                    /\ Contains(first, "\"") \/ Contains(first, "'")
                    /\ StripChars(Strip(first), Quotes) # ""
        IN  /\ \A text \in texts :
                  IF Normalized(text)
                  THEN routes # {} /\ ("@" \o text) \notin lines
                  ELSE ("@" \o text) \in lines
            /\ routes # {} => \E text \in texts : Normalized(text)

\* a decorator written with an upper-case method has been normalized
C7_Witness ==
    /\ Len(idl_out) >= 1
    /\ src = FunctionWith(Call(Attribute(Name("router"), "GET"), <<Str("/users")>>, <<>>))
    /\ IdlLines[1] = "@Route(method=GET, path=\"/users\")"

\* C8: the @Route line of a top-level function whose router decorator has a
\* path literal and tags=[...] with one or more string literals carries
\* exactly those tags, in order.
C8_TagsCarried ==
    Len(idl_out) >= 1 =>
        LET routes == RouteLinesOf(IdlLines)
        IN  \A d \in TopDecorators :
                (/\ d.k = "Call"
                 /\ Len(TagsOf(d)) >= 1
                 /\ Len(d.args) >= 1
                 /\ StringArgs(d) = d.args) =>
                    \A line \in routes :
                        EndsWith(line, ", tags=" \o TagsRepr(TagsOf(d)) \o ")")

\* C9: the path of an emitted @Route line is the first string literal
\* among the arguments of the decorator call, whole.
C9_PathIsFirstStringArgument ==
    Len(idl_out) >= 1 =>
        LET routes == RouteLinesOf(IdlLines)
        IN  \A d \in TopDecorators :
                d.k = "Call" =>
                    \A line \in routes :
                        /\ Len(StringArgs(d)) >= 1
                        /\ LET quoted == "\"" \o StringArgs(d)[1].value.s \o "\""
                           IN  \/ FromPath(line) = quoted \o ")"
                               \/ StartsWith(FromPath(line), quoted \o ", tags=")

\* C10: a decorator of an ordinary method is emitted as the same decorator
\* is on a top-level function: as the @Route(...) line when it satisfies
\* the route trigger.
C10_MethodDecoratorsNormalized ==
    Len(idl_out) >= 1 =>
        LET lines == LineSet([i \in 1..Len(IdlLines) |-> Strip(IdlLines[i])])
        IN  \A c \in 1..Len(structure.classes) :
                \A i \in 1..Len(structure.classes[c].methods) :
                    LET method == structure.classes[c].methods[i]
                    IN  method.name # "__init__" =>
                            \A j \in 1..Len(method.decorators) :
                                FunctionDecoratorLine(method.decorators[j]) \in lines

(***************************************************************************)
(* Reading definitions, records and signature lines.                       *)
(***************************************************************************)
IsDef(stmt) == stmt.k \in {"FunctionDef", "AsyncFunctionDef"}

\* every function definition of a tree, in the order the visitor meets them
RECURSIVE DefsOf(_)
DefsOf(body) ==
    IF Len(body) = 0 THEN <<>>
    ELSE (IF IsDef(body[1]) THEN <<body[1]>> ELSE <<>>)
         \o (IF HasBody(body[1]) THEN DefsOf(body[1].body) ELSE <<>>)
         \o DefsOf(Tail(body))

SeqSet(q) == {q[i] : i \in 1..Len(q)}

\* how often x occurs in a sequence
Occurrences(q, x) == Count({i \in 1..Len(q) : q[i] = x})

\* the names of the records of a list of functions
RecordNames(records) == [i \in 1..Len(records) |-> records[i].name]

\* the names of every Function record of the structure: the top-level
\* functions, then the methods of each class
AllRecordNames ==
    RecordNames(structure.functions)
    \o Flatten([c \in 1..Len(structure.classes) |->
                  RecordNames(structure.classes[c].methods)])

\* every Function record of the structure
AllRecords ==
    SeqSet(structure.functions)
    \cup UNION {SeqSet(structure.classes[c].methods) : c \in 1..Len(structure.classes)}

\* the names of the parameters of a definition as written: positional-only,
\* positional, *variadic, **keyword-variadic
DeclaredParamNames(d) ==
    [i \in 1..Len(d.args.posonlyargs) |-> d.args.posonlyargs[i].arg]
    \o [i \in 1..Len(d.args.args) |-> d.args.args[i].arg]
    \o (IF d.args.vararg # NoNode THEN <<"*" \o d.args.vararg.arg>> ELSE <<>>)
    \o (IF d.args.kwarg # NoNode THEN <<"**" \o d.args.kwarg.arg>> ELSE <<>>)

\* the text of a decorator that is a bare name
HasDecorator(d, name) ==
    \E i \in 1..Len(d.decorator_list) : d.decorator_list[i] = Name(name)

\* the plain assignments directly in a class body whose value is no literal
NonLiteralNames(body) ==
    UNION {TargetNames(body[i])
           : i \in {j \in 1..Len(body) : body[j].k = "Assign"
                                         /\ body[j].value.k # "Constant"}}

\* C11: the signature line of a function or method without a return
\* annotation ends in "returns void;", and that of one with a return
\* annotation ends in the text of the annotation.
C11_VoidWhenUnannotated ==
    Len(idl_out) >= 1 =>
        LET lines == LineSet(IdlLines)
        IN  \A d \in SeqSet(DefsOf(src.body)) :
                d.name # "__init__" =>
                    \E line \in lines :
                        /\ Contains(line, d.name \o "(")
                        /\ EndsWith(line,
                              ") returns "
                                \o (IF d.returns = NoNode THEN "void"
                                    ELSE _get_annotation_str(d.returns))
                                \o ";")

\* C12: a plain assignment directly in a class body whose value is not a
\* constant literal adds no entry to the class_vars of the class and no
\* const line to the IDL.
C12_OnlyLiteralClassVars ==
    Len(idl_out) >= 1 =>
        LET lines == LineSet(IdlLines)
        IN  \A cls \in ClassDefsIn(src.body) :
                \A name \in NonLiteralNames(cls.body) :
                    /\ \A data \in ClassData(cls.name) :
                          name \notin SeqSet(VarNames(data.class_vars))
                    /\ \A line \in lines :
                          ~StartsWith(line, "  const " \o name \o " = ")

\* C13: every function definition of the source has exactly one record, in
\* one list: for every name, the top-level functions and the methods of
\* all classes together hold as many records of that name as the source
\* holds definitions of that name.
C13_OneRecordPerDefinition ==
    pc = "extracted" =>
        LET defs == RecordNames(DefsOf(src.body))
            records == AllRecordNames \o <<>>
        IN  /\ Len(records) = Len(defs)
            /\ \A name \in SeqSet(defs) \cup SeqSet(records) :
                  Occurrences(records, name) = Occurrences(defs, name)

\* a class with methods, a nested class and a function holding a function
\* have been extracted
C13_Witness ==
    /\ pc = "extracted"
    /\ src.body = <<ClassD, DefF>>
    /\ Len(structure.functions) = 2
    /\ Len(structure.classes) = 2
    /\ Len(AllRecordNames) = 6

(***************************************************************************)
(* A JSON parser (RFC 8259, without \u escapes, fractions and exponents),  *)
(* giving the value tree of a text: objects as dicts with str keys, arrays *)
(* as lists.                                                               *)
(***************************************************************************)
JSONError == [t |-> "error"]

\* the character at p, "" past the end
CharAt(s, p) == IF p >= 1 /\ p <= Len(s) THEN Char(s, p) ELSE ""

\* the first position from p on whose character is not in chars, or is in
\* chars when stop is TRUE; Len(s) + 1 when there is none (the text is
\* scanned 24 characters at a time)
RECURSIVE Scan(_, _, _, _)
Scan(s, p, chars, stop) ==
    LET last == Min({p + 23, Len(s)})
        hits == {i \in p..last : (Char(s, i) \in chars) = stop}
    IN  CASE hits # {} -> Min(hits)
          [] last >= Len(s) -> Len(s) + 1
          [] OTHER -> Scan(s, last + 1, chars, stop)

SkipWs(s, p) == Scan(s, p, {" ", "\n", "\t", "\r"}, FALSE)

IsDigit(c) == \E d \in 0..9 : Digit(d) = c
DigitValue(c) == CHOOSE d \in 0..9 : Digit(d) = c

RECURSIVE ParseDigits(_, _, _)
ParseDigits(s, p, acc) ==
    IF IsDigit(CharAt(s, p))
    THEN ParseDigits(s, p + 1, 10 * acc + DigitValue(CharAt(s, p)))
    ELSE [v |-> PyInt(acc), p |-> p]

Unescape(c) ==
    CASE c = "n" -> "\n" [] c = "t" -> "\t" [] c = "r" -> "\r"
      [] c = "\"" -> "\"" [] c = "\\" -> "\\" [] c = "/" -> "/"
      [] OTHER -> ""

\* the characters of a string from p to its closing quote
RECURSIVE ParseChars(_, _, _)
ParseChars(s, p, acc) ==
    LET q == Scan(s, p, {"\"", "\\"}, TRUE)
        text == acc \o SubSeq(s, p, q - 1)
    IN  CASE q > Len(s) -> [v |-> JSONError, p |-> q]
          [] Char(s, q) = "\"" -> [v |-> PyStr(text), p |-> q + 1]
          [] Unescape(CharAt(s, q + 1)) = "" -> [v |-> JSONError, p |-> q]
          [] OTHER -> ParseChars(s, q + 2, text \o Unescape(CharAt(s, q + 1)))

RECURSIVE ParseValue(_, _)
RECURSIVE ParseElements(_, _, _)
RECURSIVE ParseMembers(_, _, _)

\* the value that starts at p, after blanks, and the position behind it
ParseValue(s, p) ==
    LET q == SkipWs(s, p)
        c == CharAt(s, q)
    IN  CASE c = "{" -> ParseMembers(s, SkipWs(s, q + 1), <<>>)
          [] c = "[" -> ParseElements(s, SkipWs(s, q + 1), <<>>)
          [] c = "\"" -> ParseChars(s, q + 1, "")
          [] IsDigit(c) -> ParseDigits(s, q, 0)
          [] SubSeq(s, q, Min({q + 3, Len(s)})) = "null" -> [v |-> PyNone, p |-> q + 4]
          [] SubSeq(s, q, Min({q + 3, Len(s)})) = "true" -> [v |-> PyBool(TRUE), p |-> q + 4]
          [] SubSeq(s, q, Min({q + 4, Len(s)})) = "false" -> [v |-> PyBool(FALSE), p |-> q + 5]
          [] OTHER -> [v |-> JSONError, p |-> q]

\* the elements of an array from p, the first character behind [ and blanks
ParseElements(s, p, acc) ==
    LET r == ParseValue(s, p)
        q == SkipWs(s, r.p)
    IN  CASE CharAt(s, p) = "]" /\ Len(acc) = 0 -> [v |-> PyList(acc), p |-> p + 1]
          [] r.v = JSONError -> r
          [] CharAt(s, q) = "," -> ParseElements(s, SkipWs(s, q + 1), Append(acc, r.v))
          [] CharAt(s, q) = "]" -> [v |-> PyList(Append(acc, r.v)), p |-> q + 1]
          [] OTHER -> [v |-> JSONError, p |-> q]

\* the members of an object from p, the first character behind { and blanks
ParseMembers(s, p, acc) ==
    LET key == ParseChars(s, p + 1, "")
        colon == SkipWs(s, key.p)
        r == ParseValue(s, colon + 1)
        q == SkipWs(s, r.p)
        items == Append(acc, [key |-> key.v, val |-> r.v])
    IN  CASE CharAt(s, p) = "}" /\ Len(acc) = 0 -> [v |-> PyDict(acc), p |-> p + 1]
          [] CharAt(s, p) # "\"" -> [v |-> JSONError, p |-> p]
          [] key.v = JSONError \/ CharAt(s, colon) # ":" \/ r.v = JSONError ->
               [v |-> JSONError, p |-> p]
          [] CharAt(s, q) = "," -> ParseMembers(s, SkipWs(s, q + 1), items)
          [] CharAt(s, q) = "}" -> [v |-> PyDict(items), p |-> q + 1]
          [] OTHER -> [v |-> JSONError, p |-> q]

\* json.loads(s): JSONError when s is no JSON text
JSONParse(s) ==
    LET r == ParseValue(s, 1)
    IN  IF r.v # JSONError /\ SkipWs(s, r.p) = Len(s) + 1 THEN r.v ELSE JSONError

\* C14: JSONAdapter.convert succeeds on the structure of every source, and
\* its text parses to a value equal to the structure: same keys, same
\* nesting, same values.
C14_JSONRoundTrip ==
    Len(json_out) >= 1 =>
        /\ json_out[1].exc = ""
        /\ JSONParse(json_out[1].out) = PyOfStructure(structure)

\* C17: when visit_ClassDef returns, the current class is the one it found:
\* a function defined at module level after a class is a top-level
\* function and no method of that class, and a method defined in a class
\* after a nested class is a method of the outer class, not of the nested
\* one and no top-level function.
C17_ClassContextRestored ==
    pc = "extracted" =>
        LET Defined(cls) == SeqSet(RecordNames(DefsOf(cls.body)))
            Methods(cls) ==
                UNION {SeqSet(RecordNames(data.methods)) : data \in ClassData(cls.name)}
            top == SeqSet(RecordNames(structure.functions))
            Outside(body) ==
                SeqSet(RecordNames(DefsOf(
                    SelectSeq(body, LAMBDA stmt : stmt.k # "ClassDef"))))
        IN  /\ \A i \in 1..Len(src.body) : \A j \in (i + 1)..Len(src.body) :
                  (src.body[i].k = "ClassDef" /\ IsDef(src.body[j])) =>
                      /\ src.body[j].name \in top
                      /\ src.body[j].name \notin Defined(src.body[i]) =>
                            src.body[j].name \notin Methods(src.body[i])
            /\ \A cls \in ClassDefsIn(src.body) :
                  \A i \in 1..Len(cls.body) : \A j \in (i + 1)..Len(cls.body) :
                      (cls.body[i].k = "ClassDef" /\ IsDef(cls.body[j])) =>
                          /\ cls.body[j].name \in Methods(cls)
                          /\ cls.body[j].name \notin Defined(cls.body[i]) =>
                                cls.body[j].name \notin Methods(cls.body[i])
                          /\ cls.body[j].name \notin Outside(src.body) =>
                                cls.body[j].name \notin top

\* a class whose body defines a method after a nested class, followed by a
\* module-level function, has been extracted
C17_Witness ==
    /\ pc = "extracted"
    /\ src.body = <<ClassD, DefG>>
    /\ RecordNames(structure.functions) = <<"g">>
    /\ \E data \in ClassData("D") :
          RecordNames(data.methods) = <<"__init__", "__init__", "after">>
    /\ \E data \in ClassData("E") : RecordNames(data.methods) = <<"__init__">>

\* C18: the params of the record of a definition are its positional
\* parameters in declaration order, then its * parameter, then its **
\* parameter, and nothing else.
C18_ParamsInDeclarationOrder ==
    pc = "extracted" =>
        \A d \in SeqSet(DefsOf(src.body)) :
            \E record \in AllRecords :
                /\ record.name = d.name
                /\ RecordNames(record.params) = DeclaredParamNames(d)

\* C19: a method other than __init__ decorated with staticmethod is
\* rendered as static with all its parameters; an ordinary instance method
\* is rendered without its first parameter, the reference to the instance,
\* and with all its other parameters in order.
C19_StaticAndSelf ==
    Len(idl_out) >= 1 =>
        LET lines == LineSet(IdlLines)
        IN  \A cls \in ClassDefsIn(src.body) :
                \A i \in 1..Len(cls.body) :
                    LET d == cls.body[i]
                        params == IF IsDef(d) THEN function_data(d, FALSE).params
                                  ELSE <<>>
                    IN  (IsDef(d) /\ d.name # "__init__") =>
                            IF HasDecorator(d, "staticmethod")
                            THEN \E line \in lines :
                                    StartsWith(line,
                                        "  static " \o d.name \o "("
                                          \o ParamsStr(params, "in ") \o ") returns ")
                            ELSE (~HasDecorator(d, "classmethod") /\ Len(params) > 0) =>
                                    \E line \in lines :
                                        StartsWith(line,
                                            "  " \o d.name \o "("
                                              \o ParamsStr(Tail(params), "in ")
                                              \o ") returns ")

\* C20: the value _extract_value renders for a literal constant differs
\* from the value it renders for a reference to a name, and so do their
\* const lines in the IDL.
C20_NameMarkerDistinct ==
    ("value" \in DOMAIN rendered /\ node.k = "Constant") =>
        \A ref \in {n \in Leaves : n.k = "Name"} :
            /\ rendered.value # _extract_value(ref)
            /\ GlobalVarLine([name |-> "G", value |-> rendered.value])
                 # GlobalVarLine([name |-> "G", value |-> _extract_value(ref)])

(***************************************************************************)
(* The consumer threads of append-files: each pops a file from the shared  *)
(* list, calls transform_content on its content and appends the result to  *)
(* the shared output list.  A call of transform_content is taken in steps  *)
(* (entry, one step per top-level statement visited, the end of            *)
(* extract_code_structure, the adapter), and the steps of the threads      *)
(* interleave in any order.                                                *)
(***************************************************************************)
MaxFiles == 2

\* the two consumer threads
Workers == {1, 2}

\* the files: a content and its transform, one of the two that
\* transform_content knows or one it does not
Files ==
    {[content |-> Module(<<ClassD, DefF>>), transform |-> "idl"],
     [content |-> Module(<<ClassD, DefF>>), transform |-> "json"],
     [content |-> Module(<<DocExpr, ClassK>>), transform |-> "json"],
     [content |-> Module(<<ImportOs, DefG>>), transform |-> "idl"],
     [content |-> Module(<<ImportOs, DefG>>), transform |-> "raw"]}

\* the file_info dictionaries the threads pop
FileLists ==
    UNION {{[i \in 1..n |-> [index |-> i, content |-> f[i].content,
                             transform |-> f[i].transform]] :
               f \in [1..n -> Files]} :
           n \in 1..MaxFiles}

\* transform_content run alone: what it returns, or the exception that
\* leaves it
transform_content(content, transform_type) ==
    IF transform_type \in {"idl", "json"}
    THEN CHOOSE res \in
             {IF r.exc # "" THEN [out |-> "", exc |-> r.exc]
              ELSE IF transform_type = "idl"
              THEN [out |-> IDLAdapter_convert(r.structure).out, exc |-> ""]
              ELSE CHOOSE converted \in
                       {[out |-> j.out, exc |-> j.exc] :
                           j \in {JSONAdapter_convert(r.structure)}} : TRUE :
                 r \in {extract_code_structure(content)}} : TRUE
    ELSE [out |-> content, exc |-> ""]

\* one extractor for all the calls, instead of one constructed by each
ExtractorOf_shared(index) == 0

\* the CodeStructureExtractor of a call: extract_code_structure constructs
\* a new one each time it runs, so the call on file index has its own
ExtractorOf(index) == index

IdleWorker == [pc |-> "idle", overlapped |-> FALSE]

InitConc ==
    /\ all_files \in FileLists
    /\ workers = [t \in Workers |-> IdleWorker]
    /\ extractors = <<>>
    /\ append_content_list = <<>>
    /\ batch = <<>>
    /\ app = <<>>
    /\ redact = <<>>
    /\ src = Module(<<>>)
    /\ pc = "consumers"
    /\ structure = NewExtractor.structure
    /\ exc = ""
    /\ idl_out = <<>>
    /\ json_out = <<>>
    /\ node = NoNode
    /\ rendered = <<>>

\* a thread is inside extract_code_structure or the adapter
InCall(w) == w.pc \in {"visit", "convert"}

\* all_files.pop() and the reads of the file_info
Pop(t) ==
    /\ workers[t].pc = "idle"
    /\ Len(all_files) > 0
    /\ all_files' = SubSeq(all_files, 1, Len(all_files) - 1)
    /\ workers' = [workers EXCEPT ![t] =
                     [pc |-> "popped", overlapped |-> FALSE,
                      file |-> all_files[Len(all_files)]]]
    /\ UNCHANGED <<extractors, append_content_list>>
    /\ UNCHANGED <<seq_vars, batch, app, redact>>

\* the IndexError of all_files.pop() on the empty list ends the thread
Exit(t) ==
    /\ workers[t].pc = "idle"
    /\ Len(all_files) = 0
    /\ workers' = [workers EXCEPT ![t].pc = "exit"]
    /\ UNCHANGED <<all_files, extractors, append_content_list>>
    /\ UNCHANGED <<seq_vars, batch, app, redact>>

\* transform_content up to the construction of the extractor: the tree is
\* parsed and its depths are set, or the content is returned as it is
CallTransform(t) ==
    /\ workers[t].pc = "popped"
    /\ LET w == workers[t]
       IN  IF w.file.transform \in {"idl", "json"}
           THEN /\ workers' = [workers EXCEPT ![t] =
                      [pc |-> "visit", overlapped |-> w.overlapped, file |-> w.file,
                       tree |-> _walk_tree_with_depth(w.file.content, 0), i |-> 1]]
                /\ extractors' = (ExtractorOf(w.file.index) :> NewExtractor)
                                   @@ extractors
           ELSE /\ workers' = [workers EXCEPT ![t] =
                      [pc |-> "returned", overlapped |-> w.overlapped, file |-> w.file,
                       result |-> [out |-> w.file.content, exc |-> ""]]]
                /\ UNCHANGED extractors
    /\ UNCHANGED <<all_files, append_content_list>>
    /\ UNCHANGED <<seq_vars, batch, app, redact>>

\* extractor.visit(tree), one top-level statement at a time
Visit(t) ==
    /\ workers[t].pc = "visit"
    /\ workers[t].i <= Len(workers[t].tree.body)
    /\ LET w == workers[t]
           e == ExtractorOf(w.file.index)
       IN  /\ \E st \in {visit(w.tree.body[w.i], extractors[e])} :
                  extractors' = [extractors EXCEPT ![e] = st]
           /\ workers' = [workers EXCEPT
                  ![t].i = w.i + 1,
                  ![t].overlapped =
                      w.overlapped \/ \E u \in Workers \ {t} : InCall(workers[u])]
    /\ UNCHANGED <<all_files, append_content_list>>
    /\ UNCHANGED <<seq_vars, batch, app, redact>>

\* the end of extract_code_structure: the module docstring is filed in the
\* structure of the extractor
Finish(t) ==
    /\ workers[t].pc = "visit"
    /\ workers[t].i > Len(workers[t].tree.body)
    /\ LET w == workers[t]
           e == ExtractorOf(w.file.index)
           module_docstring == get_docstring(w.tree)
           s0 == extractors[e].structure
       IN  /\ extractors' = [extractors EXCEPT ![e].structure =
                  IF Truthy(module_docstring)
                  THEN [imports |-> s0.imports, global_vars |-> s0.global_vars,
                        functions |-> s0.functions, classes |-> s0.classes,
                        module_docstring |-> module_docstring.s]
                  ELSE s0]
           /\ workers' = [workers EXCEPT ![t] =
                  [pc |-> "convert", overlapped |-> w.overlapped, file |-> w.file]]
    /\ UNCHANGED <<all_files, append_content_list>>
    /\ UNCHANGED <<seq_vars, batch, app, redact>>

\* adapter.convert(structure) on the structure of the extractor, and the
\* return of transform_content
Convert(t) ==
    /\ workers[t].pc = "convert"
    /\ LET w == workers[t]
           e == ExtractorOf(w.file.index)
       IN  \E r \in {IF w.file.transform = "idl"
                     THEN [exc |-> ""] @@ IDLAdapter_convert(extractors[e].structure)
                     ELSE JSONAdapter_convert(extractors[e].structure)} :
               /\ extractors' = [extractors EXCEPT ![e].structure = r.structure]
               /\ workers' = [workers EXCEPT ![t] =
                      [pc |-> "returned", overlapped |-> w.overlapped, file |-> w.file,
                       result |-> [out |-> r.out, exc |-> r.exc]]]
    /\ UNCHANGED <<all_files, append_content_list>>
    /\ UNCHANGED <<seq_vars, batch, app, redact>>

\* the rest of the consumer's loop body: the content is the one returned,
\* or the one read when the transformation raised, and it is appended
AppendContent(t) ==
    /\ workers[t].pc = "returned"
    /\ LET w == workers[t]
       IN  append_content_list' = Append(append_content_list,
               [index |-> w.file.index,
                content |-> IF w.result.exc = "" THEN w.result.out
                            ELSE w.file.content])
    /\ workers' = [workers EXCEPT ![t] = IdleWorker]
    /\ UNCHANGED <<all_files, extractors>>
    /\ UNCHANGED <<seq_vars, batch, app, redact>>

NextConc ==
    \E t \in Workers :
        \/ Pop(t)
        \/ Exit(t)
        \/ CallTransform(t)
        \/ Visit(t)
        \/ Finish(t)
        \/ Convert(t)
        \/ AppendContent(t)

SpecConc == InitConc /\ [][NextConc]_vars

\* C15: a call of transform_content whose steps interleave with the steps
\* of the other thread's call returns what it returns when run alone, and
\* until then its extractor holds what the steps taken so far leave when
\* run alone.
C15_CallsShareNoState ==
    \A t \in DOMAIN workers :
        LET w == workers[t]
        IN  /\ w.pc = "returned" =>
                w.result = transform_content(w.file.content, w.file.transform)
            /\ w.pc = "visit" =>
                extractors[ExtractorOf(w.file.index)] =
                    VisitAll(SubSeq(w.tree.body, 1, w.i - 1), NewExtractor)

\* thread 1 has returned from a call whose steps were taken while thread 2
\* was inside its own call, on another content, and thread 2 is still inside
C15_Witness ==
    /\ DOMAIN workers = Workers
    /\ workers[1].pc = "returned"
    /\ workers[1].overlapped
    /\ workers[1].file.transform = "idl"
    /\ workers[1].result.out # ""
    /\ workers[2].pc = "visit"
    /\ workers[2].i = 2
    /\ workers[2].file.content # workers[1].file.content

(***************************************************************************)
(* main on a path: process_directory walks the files of a directory, one   *)
(* file per step, and process_file is called on a single file.             *)
(***************************************************************************)
MaxWalk == 3

\* the files os.walk gives: the directory, the name, and what reading and
\* parsing the file gives (a tree, or the exception raised and its text)
WalkFiles ==
    {[root |-> "p", name |-> "a.py", tree |-> Module(<<DefF>>), exc |-> "", msg |-> ""],
     [root |-> "p", name |-> "b.py", tree |-> Module(<<>>),
      exc |-> "SyntaxError", msg |-> "invalid syntax (<unknown>, line 1)"],
     [root |-> "p", name |-> "c.pyi", tree |-> Module(<<DefG>>), exc |-> "", msg |-> ""],
     [root |-> "p/t", name |-> "d.py", tree |-> Module(<<>>),
      exc |-> "UnicodeDecodeError", msg |-> "invalid start byte"],
     [root |-> "p/t", name |-> "e.py", tree |-> Module(<<DocExpr, ClassD>>),
      exc |-> "", msg |-> ""]}

\* the --exclude patterns
ExcludeLists == {<<>>, <<"p/t/*">>, <<"*/b.py", "p/t/e.p?">>}

\* fnmatch.fnmatch for patterns of literal characters, * and ?
RECURSIVE fnmatch_from(_, _, _, _)
fnmatch_from(name, i, pat, j) ==
    IF j > Len(pat) THEN i > Len(name)
    ELSE IF Char(pat, j) = "*"
    THEN \E k \in i..(Len(name) + 1) : fnmatch_from(name, k, pat, j + 1)
    ELSE /\ i <= Len(name)
         /\ Char(pat, j) = "?" \/ Char(pat, j) = Char(name, i)
         /\ fnmatch_from(name, i + 1, pat, j + 1)

fnmatch(name, pat) == fnmatch_from(name, 1, pat, 1)

\* os.path.join(root, file)
PathOf(file) == file.root \o "/" \o file.name

\* the loop over exclude_patterns of process_directory
Excluded(file_path, exclude_patterns) ==
    \E k \in 1..Len(exclude_patterns) : fnmatch(file_path, exclude_patterns[k])

\* process_file: the structure with its file_path, or the exception that
\* leaves it
process_file(file) ==
    IF file.exc # "" THEN [exc |-> file.exc, msg |-> file.msg]
    ELSE CHOOSE res \in
             {IF r.exc # "" THEN [exc |-> r.exc, msg |-> r.exc]
              ELSE [exc |-> "", msg |-> "",
                    structure |-> [file_path |-> PathOf(file)] @@ r.structure] :
                 r \in {extract_code_structure(file.tree)}} : TRUE

\* a handler for OSError alone
CaughtInBatch_oserror(e) == e \in {"PermissionError", "FileNotFoundError"}

\* except Exception: every exception that reading, parsing and extraction
\* raise is an Exception
CaughtInBatch(e) == TRUE

InitBatch ==
    /\ \E mode \in {"dir", "file"}, exclude \in ExcludeLists,
          walk \in UNION {[1..n -> WalkFiles] : n \in 1..MaxWalk} :
           batch = [mode |-> mode, walk |-> walk, exclude |-> exclude, i |-> 1,
                    results |-> <<>>, stderr |-> <<>>, pc |-> "start", exc |-> ""]
    /\ NoConsumers
    /\ app = <<>>
    /\ redact = <<>>
    /\ src = Module(<<>>)
    /\ pc = "main"
    /\ structure = NewExtractor.structure
    /\ exc = ""
    /\ idl_out = <<>>
    /\ json_out = <<>>
    /\ node = NoNode
    /\ rendered = <<>>

\* the file the walk is at
Walking == batch.mode = "dir" /\ batch.pc = "start" /\ batch.i <= Len(batch.walk)

BatchStep(b) ==
    /\ batch' = b
    /\ UNCHANGED <<seq_vars, conc_vars, app, redact>>

\* a file whose name does not end with .py
SkipOther ==
    /\ Walking
    /\ ~EndsWith(batch.walk[batch.i].name, ".py")
    /\ BatchStep([batch EXCEPT !.i = @ + 1])

\* a .py file that a pattern excludes
SkipExcluded ==
    /\ Walking
    /\ EndsWith(batch.walk[batch.i].name, ".py")
    /\ Excluded(PathOf(batch.walk[batch.i]), batch.exclude)
    /\ BatchStep([batch EXCEPT !.i = @ + 1])

\* the try block on a .py file that is not excluded: the structure is
\* appended, or the exception is reported on stderr, or it leaves
\* process_directory
ProcessInBatch ==
    /\ Walking
    /\ EndsWith(batch.walk[batch.i].name, ".py")
    /\ ~Excluded(PathOf(batch.walk[batch.i]), batch.exclude)
    /\ \E r \in {process_file(batch.walk[batch.i])} :
           BatchStep(
               IF r.exc = ""
               THEN [batch EXCEPT !.results = Append(@, r.structure), !.i = @ + 1]
               ELSE IF CaughtInBatch(r.exc)
               THEN [batch EXCEPT
                        !.stderr = Append(@, "Error processing "
                                             \o PathOf(batch.walk[batch.i])
                                             \o ": " \o r.msg),
                        !.i = @ + 1]
               ELSE [batch EXCEPT !.pc = "raised", !.exc = r.exc])

\* return results
ReturnResults ==
    /\ batch.mode = "dir"
    /\ batch.pc = "start"
    /\ batch.i > Len(batch.walk)
    /\ BatchStep([batch EXCEPT !.pc = "returned"])

\* main on a file: structures = [process_file(args.path)], outside any try
ProcessSingle ==
    /\ batch.mode = "file"
    /\ batch.pc = "start"
    /\ \E r \in {process_file(batch.walk[1])} :
           BatchStep(
               IF r.exc = ""
               THEN [batch EXCEPT !.results = <<r.structure>>, !.pc = "returned"]
               ELSE [batch EXCEPT !.pc = "raised", !.exc = r.exc])

NextBatch ==
    \/ SkipOther
    \/ SkipExcluded
    \/ ProcessInBatch
    \/ ReturnResults
    \/ ProcessSingle

SpecBatch == InitBatch /\ [][NextBatch]_vars

\* the files of the walk that are .py files no pattern excludes
EligibleFiles(b) ==
    SelectSeq(b.walk, LAMBDA f : EndsWith(f.name, ".py")
                                   /\ ~Excluded(PathOf(f), b.exclude))

\* C16: process_directory is never left by an exception; when it returns,
\* the results are the structures of the eligible files whose extraction
\* does not raise, one each and in walk order, and stderr holds one report
\* for each eligible file whose extraction raises; process_file on a single
\* file lets the exception reach the caller.
C16_BatchSkipsFailingFiles ==
    /\ "mode" \in DOMAIN batch /\ batch.mode = "dir" =>
          /\ batch.pc # "raised"
          /\ batch.pc = "returned" =>
                LET eligible == EligibleFiles(batch)
                    good == SelectSeq(eligible, LAMBDA f : process_file(f).exc = "")
                    bad == SelectSeq(eligible, LAMBDA f : process_file(f).exc # "")
                IN  /\ batch.results = [k \in 1..Len(good) |-> process_file(good[k]).structure]
                    /\ Len(batch.stderr) = Len(bad)
                    /\ \A k \in 1..Len(bad) :
                           StartsWith(batch.stderr[k],
                                      "Error processing " \o PathOf(bad[k]) \o ": ")
    /\ "mode" \in DOMAIN batch /\ batch.mode = "file" /\ batch.pc # "start" =>
          LET r == process_file(batch.walk[1])
          IN  IF r.exc = ""
              THEN batch.pc = "returned" /\ batch.results = <<r.structure>>
              ELSE batch.pc = "raised" /\ batch.exc = r.exc /\ batch.results = <<>>

\* a walk has returned with a failing file between two files that gave
\* their structures
C16_Witness ==
    /\ "mode" \in DOMAIN batch
    /\ batch.mode = "dir"
    /\ batch.pc = "returned"
    /\ Len(batch.walk) = 3
    /\ batch.walk[2].exc = "SyntaxError"
    /\ Len(batch.results) = 2
    /\ batch.stderr = <<"Error processing p/b.py: invalid syntax (<unknown>, line 1)">>

\* C21: in a decorator call a keyword value that is a constant, a name, a
\* dotted attribute path or a list literal renders to the text the same
\* expression renders to in positional position, and a call-shaped keyword
\* value renders as callee(...).
C21_KeywordRendersAsPositional ==
    ("decorator" \in DOMAIN rendered
        /\ node.k = "Call" /\ Len(node.args) = 1 /\ Len(node.keywords) = 1
        /\ node.keywords[1].value = node.args[1]) =>
        LET x == node.args[1]
            positional == DecoratorArgStr(x)
            head == _get_attribute_path(node.func) \o "(" \o positional \o ", "
                      \o node.keywords[1].arg \o "="
        IN  /\ x.k \in {"Constant", "Name", "Attribute", "List"} =>
                rendered.decorator = head \o positional \o ")"
            /\ x.k = "Call" =>
                rendered.decorator =
                    head \o _get_attribute_path(x.func) \o "(...))"

\* the function definitions that belong to a body itself: those of the
\* classes defined in it left out
RECURSIVE OwnDefs(_)
OwnDefs(body) ==
    IF Len(body) = 0 THEN <<>>
    ELSE (IF body[1].k = "ClassDef" THEN <<>>
          ELSE (IF IsDef(body[1]) THEN <<body[1]>> ELSE <<>>)
               \o (IF HasBody(body[1]) THEN OwnDefs(body[1].body) ELSE <<>>))
         \o OwnDefs(Tail(body))

\* C26: a class defined directly in the body of another class has its own
\* entry in the top-level classes list, with the fields of any class entry
\* and ahead of the entry of the enclosing class; its methods are the
\* methods of its own entry, and the methods of the enclosing class's entry
\* are the enclosing class's own.
C26_NestedClassOwnEntry ==
    pc = "extracted" =>
        \A cls \in ClassDefsIn(src.body) : \A k \in 1..Len(cls.body) :
            cls.body[k].k = "ClassDef" =>
                LET inner == cls.body[k]
                    classes == structure.classes
                IN  /\ \E p \in 1..Len(classes) : \E q \in (p + 1)..Len(classes) :
                          classes[p].name = inner.name /\ classes[q].name = cls.name
                    /\ \A data \in ClassData(inner.name) :
                          /\ DOMAIN data =
                               {"name", "bases", "docstring", "methods", "class_vars"}
                          /\ RecordNames(data.methods) = RecordNames(OwnDefs(inner.body))
                    /\ \A data \in ClassData(cls.name) :
                          RecordNames(data.methods) = RecordNames(OwnDefs(cls.body))

\* a class holding a nested class with a method, and a top-level class,
\* have been extracted
C26_Witness ==
    /\ pc = "extracted"
    /\ src.body = <<ClassD, ClassC>>
    /\ RecordNames(structure.classes) = <<"E", "D", "C">>
    /\ \E data \in ClassData("E") : Len(data.methods) = 1

\* the function definitions directly in the body of a definition
InnerDefs(d) == SelectSeq(d.body, IsDef)

\* a list of records holds a record named first ahead of one named second
RecordedInOrder(records, first, second) ==
    \E p \in 1..Len(records) : \E q \in (p + 1)..Len(records) :
        records[p].name = first /\ records[q].name = second

\* C27: a function defined in the body of a top-level function is recorded
\* in the top-level functions, after the record of that function, and in
\* the methods of no class; a function defined in the body of a method is
\* recorded in the methods of the class of the method, after the record of
\* the method, and not in the top-level functions.
C27_NestedFunctionInScope ==
    pc = "extracted" =>
        LET in_classes ==
                UNION {SeqSet(RecordNames(structure.classes[c].methods))
                       : c \in 1..Len(structure.classes)}
            top == SeqSet(RecordNames(structure.functions))
            classes == ClassDefsIn(src.body)
            class_defs == UNION {SeqSet(RecordNames(DefsOf(cls.body))) : cls \in classes}
            other_defs == SeqSet(RecordNames(OwnDefs(src.body)))
        IN  /\ \A i \in 1..Len(src.body) :
                  IsDef(src.body[i]) =>
                      \A n \in SeqSet(InnerDefs(src.body[i])) :
                          /\ RecordedInOrder(structure.functions,
                                             src.body[i].name, n.name)
                          /\ n.name \notin class_defs => n.name \notin in_classes
            /\ \A cls \in classes : \A k \in 1..Len(cls.body) :
                  IsDef(cls.body[k]) =>
                      \A n \in SeqSet(InnerDefs(cls.body[k])) :
                          /\ \A data \in ClassData(cls.name) :
                                RecordedInOrder(data.methods, cls.body[k].name, n.name)
                          /\ n.name \notin other_defs => n.name \notin top

\* a top-level function holding a function and a method holding a function
\* have been extracted
C27_Witness ==
    /\ pc = "extracted"
    /\ src.body = <<DefF, ClassC>>
    /\ RecordNames(structure.functions) = <<"f", "h">>
    /\ RecordNames(structure.classes[1].methods) = <<"__init__", "m", "helper">>

\* the text a positional parameter is rendered to when its type is
\* recorded only for an annotation that is a name or a subscript
PositionalText(a) ==
    "in " \o (IF a.annotation.k \in {"Name", "Subscript"}
              THEN _get_annotation_str(a.annotation) \o " " ELSE "")
          \o a.arg

\* C28: the record of a definition gives a positional parameter a type
\* exactly when its annotation is a name or a subscript, and the type is
\* then the text of the annotation; its return_type is the text of the
\* return annotation whatever its shape; the signature line of a top-level
\* function renders the positional parameters and the return type so.
C28_ParamTypeByAnnotationShape ==
    /\ pc = "extracted" =>
          \A d \in SeqSet(DefsOf(src.body)) :
              \E record \in AllRecords :
                  /\ record.name = d.name
                  /\ Len(record.params) >= Len(d.args.args)
                  /\ \A i \in 1..Len(d.args.args) :
                        LET a == d.args.args[i]
                            param == record.params[i]
                        IN  /\ param.name = a.arg
                            /\ IF a.annotation.k \in {"Name", "Subscript"}
                               THEN param.type = PyStr(_get_annotation_str(a.annotation))
                               ELSE "type" \notin DOMAIN param
                  /\ record.return_type =
                        (IF d.returns = NoNode THEN PyNone
                         ELSE PyStr(_get_annotation_str(d.returns)))
    /\ Len(idl_out) >= 1 =>
          LET lines == LineSet(IdlLines)
          IN  \A i \in 1..Len(src.body) :
                  IsDef(src.body[i]) =>
                      LET d == src.body[i]
                          positional == Join([j \in 1..Len(d.args.args) |->
                                                PositionalText(d.args.args[j])], ", ")
                      IN  \E line \in lines :
                              /\ StartsWith(line, "function " \o d.name \o "("
                                                    \o positional)
                              /\ d.returns # NoNode =>
                                    EndsWith(line, ") returns "
                                        \o _get_annotation_str(d.returns) \o ";")

\* a function whose parameters are annotated with a dotted path, a union
\* and a string, and one annotated with a subscript, have been rendered
C28_Witness ==
    /\ Len(idl_out) >= 1
    /\ src.body = <<DefF, DefG>>
    /\ "function f(in a, in b, in c, in int | str *rest) returns int | str;"
          \in LineSet(IdlLines)
    /\ "function g(in List[int] p, in **kw) returns str;" \in LineSet(IdlLines)

\* the methods in the order of their priority
MethodPriority == <<"GET", "POST", "PUT", "DELETE", "PATCH">>

\* the first method in priority order whose call substring occurs in the
\* lower-cased text, "" when none occurs
PriorityMethod(text) ==
    LET hits == {k \in 1..Len(MethodPriority) :
                    Contains(Lower(text), Lower(MethodPriority[k]) \o "(")}
    IN  IF hits = {} THEN "" ELSE MethodPriority[Min(hits)]

\* the texts of the decorators of the top-level functions
TopDecoratorTexts ==
    UNION {SeqSet(structure.functions[i].decorators) : i \in 1..Len(structure.functions)}

\* C29: the method of every emitted @Route line is the first of GET, POST,
\* PUT, DELETE, PATCH whose call substring occurs anywhere in the
\* lower-cased text of the decorator, so a text holding both post( and
\* get( gives method=GET.
C29_MethodByPriority ==
    Len(idl_out) >= 1 =>
        LET routes == RouteLinesOf(IdlLines)
        IN  /\ \A line \in routes :
                  \E text \in TopDecoratorTexts :
                      StartsWith(line, "@Route(method=" \o PriorityMethod(text) \o ", path=")
            /\ Count(TopDecoratorTexts) = 1 =>
                  \A text \in TopDecoratorTexts : \A line \in routes :
                      /\ StartsWith(line, "@Route(method=" \o PriorityMethod(text) \o ", path=")
                      /\ (Contains(Lower(text), "post(") /\ Contains(Lower(text), "get("))
                            => StartsWith(line, "@Route(method=GET, ")

\* a router.post decorator whose keyword value is a call of get has been
\* emitted as a GET route
C29_Witness ==
    /\ Len(idl_out) >= 1
    /\ TopDecoratorTexts = {"router.post('/x', dep=get(...))"}
    /\ RouteLinesOf(IdlLines) = {"@Route(method=GET, path=\"/x\")"}

(***************************************************************************)
(* append-files: scan_files collects the files of the transform paths and  *)
(* of the input paths into all_files, the consumer threads pop them,       *)
(* transform and frame their contents and append them to                   *)
(* append_content_list, and main joins the threads, sorts the list by      *)
(* index and concatenates it.                                              *)
(***************************************************************************)

\* the files of the working directory and what reading them gives: a text
\* ("" for an empty or unreadable file) and, for Python that parses, a tree
FsFiles ==
    ("a.py" :> [text |-> "import os as o\n", parses |-> TRUE,
                tree |-> Module(<<ImportOs>>)])
    @@ ("z.py" :> [text |-> "", parses |-> TRUE, tree |-> Module(<<>>)])
    @@ ("d/c.py" :> [text |-> "def f(:\n", parses |-> FALSE, tree |-> Module(<<>>)])
    @@ ("d/b.py" :> [text |-> "'Doc.'\n", parses |-> TRUE, tree |-> Module(<<DocExpr>>)])
    @@ ("d/n.txt" :> [text |-> "notes\n", parses |-> FALSE, tree |-> Module(<<>>)])
    @@ [f \in {"big/f1.py", "big/f2.py", "big/f3.py", "big/f4.py", "big/f5.py"} |->
            [text |-> "x = 1\n", parses |-> TRUE, tree |-> Module(<<AssignX2>>)]]

\* the directories and the file names os.walk lists in them
FsDirs ==
    ("d" :> <<"c.py", "b.py", "n.txt">>)
    @@ ("big" :> <<"f1.py", "f2.py", "f3.py", "f4.py", "f5.py">>)

\* os.path.basename
Basename(path) ==
    LET i == RFind(path, "/") IN IF i = 0 THEN path ELSE SubSeq(path, i + 1, Len(path))

\* normalize_extensions
normalize_extensions(extensions) ==
    [i \in 1..Len(extensions) |-> "." \o LStripChars(Lower(extensions[i]), {"."})]

\* path_spec.split(":", 2) and what process_paths reads from the parts: the
\* path, the extensions and the transform type
PathSpec(path_spec, default_extension, transform_format) ==
    CHOOSE res \in
        {[path |-> parts[1],
          extensions |->
              IF Len(parts) > 2 \/ (Len(parts) > 1 /\ parts[2] \notin {"idl", "json"})
              THEN CHOOSE normalized \in
                       {normalize_extensions(listed) :
                           listed \in {Split(parts[2], ",")}} : TRUE
              ELSE <<default_extension>>,
          transform |-> IF Len(parts) > 2 THEN PyStr(parts[3])
                        ELSE IF Len(parts) > 1 /\ parts[2] \in {"idl", "json"}
                        THEN PyStr(parts[2])
                        ELSE transform_format] :
            parts \in {IF Len(all) <= 3 THEN all
                       ELSE <<all[1], all[2], Join(SubSeq(all, 3, Len(all)), ":")>> :
                          all \in {Split(path_spec, ":")}}} : TRUE

\* what both loops of process_paths do with a file that passed their
\* filters: it is skipped when it was collected with a transform and has
\* none now, and appended with the next index otherwise
CollectFile(file_path, relative_path, transform, scan) ==
    IF file_path \in scan.transformed_files /\ transform = PyNone THEN scan
    ELSE [scan EXCEPT
            !.transformed_files = IF transform # PyNone THEN @ \cup {file_path} ELSE @,
            !.all_files = Append(@, [index |-> scan.index, file_path |-> file_path,
                                     relative_path |-> relative_path,
                                     transform |-> transform]),
            !.index = @ + 1]

\* the first loop of process_paths: the files named are collected, the
\* directories named are kept for the second loop
RECURSIVE PathsLoop(_, _, _, _, _)
PathsLoop(paths, exclude_files, default_extension, transform_format, scan) ==
    IF Len(paths) = 0 THEN scan
    ELSE CHOOSE res \in
             {PathsLoop(Tail(paths), exclude_files, default_extension,
                        transform_format,
                        IF spec.path \in DOMAIN FsFiles
                        THEN IF \E k \in 1..Len(exclude_files) :
                                    Basename(spec.path) = exclude_files[k]
                             THEN scan
                             ELSE CollectFile(spec.path, Basename(spec.path),
                                              spec.transform, scan)
                        ELSE IF spec.path \in DOMAIN FsDirs
                        THEN [scan EXCEPT !.paths_to_scan = Append(@, spec)]
                        ELSE scan) :
                 spec \in {PathSpec(paths[1], default_extension, transform_format)}} :
             TRUE

\* the files of one directory, in the second loop of process_paths
RECURSIVE FilesLoop(_, _, _, _)
FilesLoop(files, dir, exclude_files, scan) ==
    IF Len(files) = 0 THEN scan
    ELSE CHOOSE res \in
             {FilesLoop(Tail(files), dir, exclude_files, next) :
                 next \in
                     {IF \/ StartsWith(files[1], ".")
                         \/ \E k \in 1..Len(exclude_files) : files[1] = exclude_files[k]
                         \/ ~\E k \in 1..Len(dir.extensions) :
                                EndsWith(Lower(files[1]), dir.extensions[k])
                      THEN scan
                      ELSE CollectFile(dir.path \o "/" \o files[1], files[1],
                                       dir.transform, scan)}} : TRUE

RECURSIVE DirsLoop(_, _, _)
DirsLoop(dirs, exclude_files, scan) ==
    IF Len(dirs) = 0 THEN scan
    ELSE CHOOSE res \in
             {DirsLoop(Tail(dirs), exclude_files, next) :
                 next \in {FilesLoop(FsDirs[dirs[1].path], dirs[1],
                                     exclude_files, scan)}} : TRUE

\* process_paths: index starts at 0 in every call; all_files and
\* transformed_files are the caller's
process_paths(paths, exclude_files, default_extension, transform_format, all_files_in, transformed_files) ==
    CHOOSE res \in
        {DirsLoop(scan1.paths_to_scan, exclude_files, scan1) :
            scan1 \in {PathsLoop(paths, exclude_files, default_extension,
                                 transform_format,
                                 [all_files |-> all_files_in,
                                  transformed_files |-> transformed_files,
                                  index |-> 0, paths_to_scan |-> <<>>])}} : TRUE

\* scan_files: the transform paths with the default transform format, then
\* the input paths without one
scan_files(input_paths, transform_paths, exclude_files, default_extension, transform_format) ==
    CHOOSE res \in
        {process_paths(input_paths, exclude_files, default_extension, PyNone,
                       first.all_files, first.transformed_files).all_files :
            first \in {process_paths(transform_paths, exclude_files,
                                     default_extension, PyStr(transform_format),
                                     <<>>, {})}} : TRUE

\* the number of consumer threads main starts
num_consumers == 4

\* the first line of SYSTEM_PROMPT, for the whole text
SYSTEM_PROMPT == "System Prompt:"

\* the transform paths and input paths of a run
PathLists ==
    {[transform_paths |-> <<"d">>, input_paths |-> <<"a.py">>],
     [transform_paths |-> <<>>, input_paths |-> <<"a.py", "z.py", "d">>],
     [transform_paths |-> <<"d/b.py:json">>, input_paths |-> <<"d:py,txt">>],
     [transform_paths |-> <<>>, input_paths |-> <<"d/b.py", "d:idl">>],
     [transform_paths |-> <<>>, input_paths |-> <<"big">>],
     [transform_paths |-> <<>>, input_paths |-> <<"nowhere">>]}

\* the default header template and one with a field format() is not given
HeaderTemplates == {"# File: {filename}\n\n", "{name}: "}

ExcludeFileLists == {<<>>, <<"c.py">>}

\* template.format(filename=..., filepath=...) for a template whose braces
\* are replacement fields without conversions or format specifications
RECURSIVE str_format(_, _, _)
str_format(template, filename, filepath) ==
    LET i == Find(template, "{")
        rest == SubSeq(template, i + 1, Len(template))
        j == Find(rest, "}")
        name == SubSeq(rest, 1, j - 1)
    IN  IF i = 0 THEN [out |-> template, exc |-> ""]
        ELSE IF j = 0 THEN [out |-> "", exc |-> "ValueError"]
        ELSE IF name \notin {"filename", "filepath"} THEN [out |-> "", exc |-> "KeyError"]
        ELSE CHOOSE res \in
                 {IF tail.exc # "" THEN tail
                  ELSE [out |-> SubSeq(template, 1, i - 1)
                                  \o (IF name = "filename" THEN filename ELSE filepath)
                                  \o tail.out,
                        exc |-> ""] :
                     tail \in {str_format(SubSeq(rest, j + 1, Len(rest)),
                                          filename, filepath)}} : TRUE

\* transform_content on the text of a file: ast.parse raises on a text that
\* is no Python
TransformFile(file_path, transform) ==
    IF transform \in {"idl", "json"}
    THEN IF FsFiles[file_path].parses
         THEN transform_content(FsFiles[file_path].tree, transform)
         ELSE [out |-> "", exc |-> "SyntaxError"]
    ELSE [out |-> FsFiles[file_path].text, exc |-> ""]

\* the body of the consumer's loop after the pop: no entry for a file
\* without content, the entry appended otherwise, or the exception of
\* format() that leaves the loop
ConsumerEntry(file_info, header_template, footer_template) ==
    LET read == FsFiles[file_info.file_path].text
    IN  IF read = "" THEN [kind |-> "none"]
        ELSE CHOOSE res \in
             {IF header.exc # "" THEN [kind |-> "raise", exc |-> header.exc]
              ELSE IF footer.exc # "" THEN [kind |-> "raise", exc |-> footer.exc]
              ELSE [kind |-> "entry",
                    entry |-> [index |-> file_info.index,
                               content |-> header.out
                                  \o (IF transformed.exc = "" THEN transformed.out
                                      ELSE read)
                                  \o footer.out]] :
                 transformed \in {IF Truthy(file_info.transform)
                                  THEN TransformFile(file_info.file_path,
                                                     file_info.transform.s)
                                  ELSE [out |-> read, exc |-> ""]},
                 header \in {str_format(header_template, file_info.relative_path,
                                        file_info.file_path)},
                 footer \in {str_format(footer_template, file_info.relative_path,
                                        file_info.file_path)}} : TRUE

\* a pop that returns the last item and leaves it on the list
ListPop_keeps(files) ==
    [item |-> files[Len(files)], rest |-> files]

\* all_files.pop(): the last item is returned and removed in one step
ListPop(files) ==
    [item |-> files[Len(files)], rest |-> SubSeq(files, 1, Len(files) - 1)]

\* list.sort(key=lambda x: x["index"]): stable
RECURSIVE SortByIndex(_)
SortByIndex(items) ==
    IF Len(items) = 0 THEN <<>>
    ELSE CHOOSE res \in
             {SubSeq(sorted, 1, k) \o <<items[Len(items)]>>
                  \o SubSeq(sorted, k + 1, Len(sorted)) :
                 <<sorted, k>> \in
                     {<<q, Cardinality({i \in 1..Len(q) :
                                          q[i].index <= items[Len(items)].index})>> :
                         q \in {SortByIndex(SubSeq(items, 1, Len(items) - 1))}}} : TRUE

InitAppend ==
    /\ \E paths \in PathLists, header_template \in HeaderTemplates,
          exclude_files \in ExcludeFileLists :
           app = [phase |-> "start",
                  transform_paths |-> paths.transform_paths,
                  input_paths |-> paths.input_paths,
                  exclude_files |-> exclude_files,
                  header_template |-> header_template,
                  footer_template |-> "\n\n",
                  scanned |-> <<>>,
                  all_files |-> <<>>,
                  append_content_list |-> <<>>,
                  threads |-> <<>>,
                  taken |-> <<>>,
                  append_content |-> ""]
    /\ NoConsumers
    /\ batch = <<>>
    /\ redact = <<>>
    /\ src = Module(<<>>)
    /\ pc = "append-files"
    /\ structure = NewExtractor.structure
    /\ exc = ""
    /\ idl_out = <<>>
    /\ json_out = <<>>
    /\ node = NoNode
    /\ rendered = <<>>

AppStep(a) ==
    /\ app' = a
    /\ UNCHANGED <<seq_vars, conc_vars, batch, redact>>

\* main from scan_files to the start of the consumer threads; it returns
\* when no file was found
ScanAndStart ==
    /\ app.phase = "start"
    /\ \E files \in {scan_files(app.input_paths, app.transform_paths,
                                app.exclude_files, ".py", "idl")} :
           AppStep([app EXCEPT
               !.scanned = files,
               !.all_files = files,
               !.phase = IF Len(files) = 0 THEN "done" ELSE "run",
               !.threads = IF Len(files) = 0 THEN <<>>
                           ELSE [t \in 1..num_consumers |-> [pc |-> "idle"]]])

\* a consumer thread pops a file
TakeFile(t) ==
    /\ app.phase = "run"
    /\ app.threads[t].pc = "idle"
    /\ Len(app.all_files) > 0
    /\ \E popped \in {ListPop(app.all_files)} :
           AppStep([app EXCEPT
               !.all_files = popped.rest,
               !.threads[t] = [pc |-> "took", file |-> popped.item],
               !.taken = Append(@, popped.item)])

\* the IndexError of pop on the empty list ends the thread
ThreadExit(t) ==
    /\ app.phase = "run"
    /\ app.threads[t].pc = "idle"
    /\ Len(app.all_files) = 0
    /\ AppStep([app EXCEPT !.threads[t] = [pc |-> "exit"]])

\* a thread holds a file it popped: ProcessFile(t) is enabled then and only
\* then, and it always changes the thread's state
Holding(t) == app.phase = "run" /\ app.threads[t].pc = "took"

\* the rest of the loop body on the file popped
ProcessFile(t) ==
    /\ Holding(t)
    /\ \E r \in {ConsumerEntry(app.threads[t].file, app.header_template,
                               app.footer_template)} :
           AppStep(
               IF r.kind = "entry"
               THEN [app EXCEPT !.append_content_list = Append(@, r.entry),
                                !.threads[t] = [pc |-> "idle"]]
               ELSE IF r.kind = "none"
               THEN [app EXCEPT !.threads[t] = [pc |-> "idle"]]
               ELSE [app EXCEPT !.threads[t] = [pc |-> "raised", exc |-> r.exc]])

\* a thread has ended: by the break of its loop or by an exception
Ended(thread) == thread.pc \in {"exit", "raised"}

\* main after the joins: the list is sorted by index and concatenated
JoinAndSort ==
    /\ app.phase = "run"
    /\ \A t \in 1..num_consumers : Ended(app.threads[t])
    /\ \E sorted \in {SortByIndex(app.append_content_list)} :
           AppStep([app EXCEPT
               !.phase = "done",
               !.append_content_list = sorted,
               !.append_content =
                   IF Len(sorted) = 0 THEN ""
                   ELSE (IF Len(app.transform_paths) > 0
                         THEN SYSTEM_PROMPT \o "\n\n" ELSE "")
                        \o Join([i \in 1..Len(sorted) |-> sorted[i].content], "\n")])

ThreadStep(t) == TakeFile(t) \/ ThreadExit(t) \/ ProcessFile(t)

NextAppend ==
    \/ ScanAndStart
    \/ \E t \in 1..num_consumers : ThreadStep(t)
    \/ JoinAndSort

SpecAppend == InitAppend /\ [][NextAppend]_vars

\* main runs on and every started thread is scheduled while it can take a
\* step: weak fairness of each step.  For ScanAndStart and ProcessFile(t)
\* the condition WF_vars(A) is written out as
\* []<>~ENABLED <<A>>_vars \/ []<><<A>>_vars, with the guard of the action
\* for ENABLED <<A>>_vars.
SpecAppendFair ==
    /\ SpecAppend
    /\ []<>(app.phase # "start") \/ []<><<ScanAndStart>>_vars
    /\ \A t \in 1..num_consumers :
           /\ WF_vars(TakeFile(t))
           /\ WF_vars(ThreadExit(t))
           /\ []<>(~Holding(t)) \/ []<><<ProcessFile(t)>>_vars
    /\ WF_vars(JoinAndSort)

\* both templates of the run format without an exception
FormatsOk ==
    /\ str_format(app.header_template, "", "").exc = ""
    /\ str_format(app.footer_template, "", "").exc = ""

\* the scanned files with a non-empty text, in the order of the scan
ContentFiles ==
    LET HasContent(file_info) == FsFiles[file_info.file_path].text # ""
    IN  SelectSeq(app.scanned, HasContent)

\* the content each of them contributes
ScanOrderContents ==
    [i \in 1..Len(ContentFiles) |->
        ConsumerEntry(ContentFiles[i], app.header_template,
                      app.footer_template).entry.content]

ListContents == [i \in 1..Len(app.append_content_list) |->
                    app.append_content_list[i].content]

\* C22: when the templates format, the sorted append_content_list holds the
\* contents of the scanned files in the order of the scan (the files of
\* the transform paths, then those of the input paths), whatever the
\* interleaving of the consumer threads was.
C22_OutputKeepsScanOrder ==
    (app.phase = "done" /\ FormatsOk) => ListContents = ScanOrderContents

ReverseSeq(q) == [i \in 1..Len(q) |-> q[Len(q) + 1 - i]]

\* the files held by threads that have popped them and not yet finished
InFlight == {t \in 1..Len(app.threads) : app.threads[t].pc = "took"}

\* every scanned file is on the list or was popped once, a file popped is
\* held by at most one thread, and after the joins every file was popped
\* and the contents of the list are those of the scanned files with a
\* non-empty text, each as often as the scan found it
EachFileOnce ==
    /\ app.all_files \o ReverseSeq(app.taken) = app.scanned
    /\ \A t, u \in InFlight :
           t # u => app.threads[t].file # app.threads[u].file
    /\ Len(app.append_content_list) + Cardinality(InFlight) <= Len(app.taken)
    /\ app.phase = "done" =>
           /\ app.all_files = <<>>
           /\ Len(app.append_content_list) = Len(ContentFiles)
           /\ \A i \in 1..Len(ScanOrderContents) :
                  Occurrences(ListContents, ScanOrderContents[i])
                      = Occurrences(ScanOrderContents, ScanOrderContents[i])

C24_ThreadsEndAndListEmpty ==
    /\ <>(app.phase = "done")
    /\ [](app.phase = "done" => app.all_files = <<>>)

\* C25: after scan_files no file is in all_files both with a transform
\* and without one.
C25_NoFileWithAndWithoutTransform ==
    app.phase # "start" =>
        \A i, j \in 1..Len(app.scanned) :
            app.scanned[i].file_path = app.scanned[j].file_path
                => (app.scanned[i].transform = PyNone
                        <=> app.scanned[j].transform = PyNone)

(***************************************************************************)
(* secrets-sanitizer: redact_secrets.                                      *)
(***************************************************************************)
\* [A-Za-z0-9_-]
NameChars == "ABCDEFGHIJKLMNOPQRSTUVWXYZabcdefghijklmnopqrstuvwxyz0123456789_-"

IsNameChar(c) == Contains(NameChars, c)

ApiKeyWords == <<"API_KEY", "API-KEY", "APIKEY">>
GenericWords == <<"SECRET", "KEY", "TOKEN", "AUTH", "CRED", "SIGN", "IDENTITY", "MSI">>

\* ([A-Za-z0-9_-]*(?:w1|w2|...)[A-Za-z0-9_-]*)=<quote>value<quote>: a name
\* that holds one of the words; nocase for the [Pp][Aa]... spelling
Named(words, nocase, quote, marker, line) ==
    [kind |-> "named", words |-> words, nocase |-> nocase, quote |-> quote,
     marker |-> marker, line |-> line]

\* name=([^\n\r]*) for a name written out in the pattern
Literal(name, marker, line) ==
    [kind |-> "literal", words |-> <<name>>, nocase |-> FALSE, quote |-> "",
     marker |-> marker, line |-> line]

\* SECRET_PATTERNS in its order, without the patterns that need a token of
\* ten or more characters or a literal the contents enumerated do not hold
\* (AKIA..., aws_secret_access_key, "secret_key", aws_session_token,
\* AccountKey=, sig=, AZURE_STORAGE_SAS_TOKEN=, eyJ..., AUTH_TOKEN,
\* AUTH-TOKEN, Authorization token:, Bearer, ghp_, github_pat_, AIza,
\* googleusercontent): none of them matches any of the contents
SECRET_PATTERNS ==
    <<Named(ApiKeyWords, FALSE, "\"", "[API-KEY]", 15),
      Named(ApiKeyWords, FALSE, "'", "[API-KEY]", 16),
      Named(<<"password">>, TRUE, "\"", "[PASSWORD]", 19),
      Named(<<"password">>, TRUE, "'", "[PASSWORD]", 20),
      Named(GenericWords, FALSE, "\"", "[SECRET]", 23),
      Named(GenericWords, FALSE, "'", "[SECRET]", 25),
      Literal("AZURE_OPENAI_API_KEY", "[API-KEY]", 38),
      Literal("AZURE_API_KEY", "[API-KEY]", 41),
      Named(ApiKeyWords, FALSE, "", "[API-KEY]", 42),
      Named(<<"password">>, TRUE, "", "[PASSWORD]", 53),
      Literal("AUTH_USERNAME", "[USERNAME]", 64),
      Named(GenericWords, FALSE, "", "[SECRET]", 67)>>

\* the start of the run of name characters that ends before position e and
\* does not reach back over position from
RECURSIVE RunStart(_, _, _)
RunStart(line, e, from) ==
    IF e > from /\ IsNameChar(Char(line, e - 1))
    THEN RunStart(line, e - 1, from)
    ELSE e

\* the name holds one of the words of the pattern
HoldsWord(name, pattern) ==
    \E w \in 1..Len(pattern.words) :
        Contains(IF pattern.nocase THEN Lower(name) ELSE name, pattern.words[w])

\* the end of [^\n\r]* from position i
RECURSIVE LineEnd(_, _)
LineEnd(line, i) ==
    IF i > Len(line) \/ Char(line, i) \in {"\n", "\r"} THEN i - 1
    ELSE LineEnd(line, i + 1)

\* the match of a pattern whose name ends before the "=" at position e and
\* starts at position from or later: its span and group 1, or no match
MatchAt(line, pattern, e, from) ==
    CHOOSE res \in
        {IF first > e \/ (pattern.kind = "named"
                           /\ ~HoldsWord(SubSeq(line, first, e - 1), pattern))
         THEN [found |-> FALSE]
         ELSE IF pattern.quote = ""
         THEN [found |-> TRUE, start |-> first, end |-> LineEnd(line, e + 1),
               name |-> SubSeq(line, first, e - 1)]
         ELSE IF Char(line, e + 1) = pattern.quote
                   /\ FindFrom(line, pattern.quote, e + 2) # 0
         THEN [found |-> TRUE, start |-> first,
               end |-> FindFrom(line, pattern.quote, e + 2),
               name |-> SubSeq(line, first, e - 1)]
         ELSE [found |-> FALSE] :
            first \in {IF pattern.kind = "named" THEN RunStart(line, e, from)
                       ELSE IF e - Len(pattern.words[1]) >= from
                               /\ SubSeq(line, e - Len(pattern.words[1]), e - 1)
                                      = pattern.words[1]
                       THEN e - Len(pattern.words[1])
                       ELSE e + 1}} : TRUE

\* list(re.finditer(pattern, line)) from position from: the matches from
\* left to right, none overlapping another
RECURSIVE finditer(_, _, _)
finditer(line, pattern, from) ==
    CHOOSE res \in
        {IF e = 0 THEN <<>>
         ELSE CHOOSE rest \in
                  {IF m.found THEN <<m>> \o finditer(line, pattern, m.end + 1)
                   ELSE finditer(line, pattern, e + 1) :
                      m \in {MatchAt(line, pattern, e, from)}} : TRUE :
            e \in {FindFrom(line, "=", from)}} : TRUE

\* the quote as the replacement template writes it: \' in a raw string is
\* a backslash and a quote, and re.sub copies both
TemplateQuote(quote) == IF quote = "'" THEN "\\'" ELSE quote

\* re.sub(pattern, replacement, match_text) on the text of a match
Replacement(pattern, m) ==
    m.name \o "=" \o TemplateQuote(pattern.quote) \o pattern.marker
        \o TemplateQuote(pattern.quote)

\* the counter a replacement raises
StatsKey(pattern) ==
    IF pattern.marker = "[API-KEY]" THEN "API"
    ELSE IF pattern.marker = "[PASSWORD]" THEN "Password"
    ELSE "Generic"

\* the loop over reversed(matches): each match is replaced in the line
RECURSIVE ReplaceMatches(_, _, _)
ReplaceMatches(line, pattern, matches) ==
    IF Len(matches) = 0 THEN line
    ELSE CHOOSE res \in
             {ReplaceMatches(SubSeq(line, 1, m.start - 1)
                                 \o Replacement(pattern, m)
                                 \o SubSeq(line, m.end + 1, Len(line)),
                             pattern, SubSeq(matches, 1, Len(matches) - 1)) :
                 m \in {matches[Len(matches)]}} : TRUE

\* content.splitlines(): the lines without their "\n"; a last line needs none
RECURSIVE splitlines(_)
splitlines(content) ==
    IF Len(content) = 0 THEN <<>>
    ELSE CHOOSE res \in
             {IF i = 0 THEN <<content>>
              ELSE <<SubSeq(content, 1, i - 1)>>
                       \o splitlines(SubSeq(content, i + 1, Len(content))) :
                 i \in {Find(content, "\n")}} : TRUE

\* content.splitlines(True): the lines with their "\n"
RECURSIVE splitlines_keepends(_)
splitlines_keepends(content) ==
    IF Len(content) = 0 THEN <<>>
    ELSE CHOOSE res \in
             {IF i = 0 THEN <<content>>
              ELSE <<SubSeq(content, 1, i)>>
                       \o splitlines_keepends(SubSeq(content, i + 1, Len(content))) :
                 i \in {Find(content, "\n")}} : TRUE

\* redact_private_keys on a content without a PRIVATE KEY marker: the lines
\* joined again, count 0
redact_private_keys(content) ==
    [content |-> Join(splitlines(content), "\n"), count |-> 0]

\* the contents enumerated: assignments of short values, one on a line;
\* none is an object of JSON, so process_json_content leaves them as they
\* are with count 0
Contents ==
    {"API_KEY=abc\n", "API_KEY=\"abc\"\n", "export MY_API-KEY='k'",
     "PASSWORD=x\n", "DB_Password=\"p\"\n", "MY_TOKEN=zzz\n", "TOKEN='t'",
     "AUTH_USERNAME=bob\n", "AZURE_API_KEY=k\n", "NAME=v\n",
     "NAME=v\nPASSWORD=x\n", "A=1\nB=\"2\"\n"}

NoStats == [AWS |-> 0, Azure |-> 0, API |-> 0, JWT |-> 0, Password |-> 0,
            Private |-> 0, GitHub |-> 0, Google |-> 0, Generic |-> 0]

InitRedact ==
    /\ \E content \in Contents :
           redact = [phase |-> "start", content |-> content, lines |-> <<>>,
                     i |-> 0, k |-> 0, current_line |-> "",
                     processed_lines |-> <<>>, stats |-> NoStats,
                     hits |-> <<>>, out |-> ""]
    /\ NoConsumers
    /\ batch = <<>>
    /\ app = <<>>
    /\ src = Module(<<>>)
    /\ pc = "secrets-sanitizer"
    /\ structure = NewExtractor.structure
    /\ exc = ""
    /\ idl_out = <<>>
    /\ json_out = <<>>
    /\ node = NoNode
    /\ rendered = <<>>

RedactStep(r) ==
    /\ redact' = r
    /\ UNCHANGED <<seq_vars, conc_vars, batch, app>>

\* redact_secrets down to the head of the loop over the lines
RedactStart ==
    /\ redact.phase = "start"
    /\ \E keys \in {redact_private_keys(redact.content)} :
       \E lines \in {splitlines_keepends(keys.content)} :
           RedactStep([redact EXCEPT
               !.phase = "lines",
               !.stats.Private = keys.count,
               !.lines = lines,
               !.i = 1,
               !.k = 1,
               !.current_line = IF Len(lines) > 0 THEN lines[1] ELSE "",
               !.hits = [n \in 1..Len(lines) |-> <<>>]])

\* one pass of the loop over SECRET_PATTERNS on the current line; hits
\* records which pattern matched which line
ApplyPattern ==
    /\ redact.phase = "lines"
    /\ redact.i <= Len(redact.lines)
    /\ redact.k <= Len(SECRET_PATTERNS)
    /\ \E pattern \in {SECRET_PATTERNS[redact.k]} :
       \E matches \in {finditer(redact.current_line, pattern, 1)} :
           RedactStep([redact EXCEPT
               !.current_line = ReplaceMatches(@, pattern, matches),
               !.stats[StatsKey(pattern)] = @ + Len(matches),
               !.hits[redact.i] =
                   @ \o [n \in 1..Len(matches) |-> redact.k],
               !.k = @ + 1])

\* processed_lines.append(current_line) and the next line
EndLine ==
    /\ redact.phase = "lines"
    /\ redact.i <= Len(redact.lines)
    /\ redact.k > Len(SECRET_PATTERNS)
    /\ RedactStep([redact EXCEPT
           !.processed_lines = Append(@, redact.current_line),
           !.i = @ + 1,
           !.k = 1,
           !.current_line = IF redact.i < Len(redact.lines)
                            THEN redact.lines[redact.i + 1] ELSE ""])

\* return ''.join(processed_lines), stats
ReturnRedacted ==
    /\ redact.phase = "lines"
    /\ redact.i > Len(redact.lines)
    /\ RedactStep([redact EXCEPT
           !.phase = "done",
           !.out = Join(redact.processed_lines, "")])

NextRedact == RedactStart \/ ApplyPattern \/ EndLine \/ ReturnRedacted

SpecRedact == InitRedact /\ [][NextRedact]_vars

\* the sum of the counters
StatsTotal(stats) ==
    stats.AWS + stats.Azure + stats.API + stats.JWT + stats.Password
        + stats.Private + stats.GitHub + stats.Google + stats.Generic

\* C30: a line that holds one secret assignment is matched by one pattern
\* only: the line returned carries the marker of the first pattern that
\* matched it, and the counters rise by one for it.
C30_FirstMarkerKeptCountedOnce ==
    redact.phase = "done" =>
        /\ \A n \in 1..Len(redact.lines) :
              Len(redact.hits[n]) > 0 =>
                  /\ Len(redact.hits[n]) = 1
                  /\ Contains(redact.processed_lines[n],
                              SECRET_PATTERNS[redact.hits[n][1]].marker)
        /\ StatsTotal(redact.stats)
               = Cardinality({n \in 1..Len(redact.lines) : Len(redact.hits[n]) > 0})

====
